---------------------------- MODULE Spec2Model ----------------------------
(***************************************************************************)
(* Model of the tasks CRUD API (Hono routes over a Postgres store reached  *)
(* through Drizzle / Neon HTTP).                                           *)
(*                                                                         *)
(* Text values (path ids, titles, enum members, query-string values) are   *)
(* sequences of one-character strings, so that lengths, the UUID regular   *)
(* expression and the number coercion are computed character by character. *)
(* JSON values are records [t |-> type tag, v |-> text].                   *)
(***************************************************************************)
EXTENDS Integers, Sequences, FiniteSets, TLC

(* ------------------------------ bounds --------------------------------- *)

\* number of distinct values gen_random_uuid() returns in one behaviour
MaxIds == 2
\* largest reading of the application clock and of the database clock
MaxClock == 1
\* number of requests received in one behaviour
MaxRequests == 3
\* number of storage calls that can be in flight at the same time
MaxPending == 2

(* --------------------------- text helpers ------------------------------ *)

Rep(c, n) == [i \in 1..n |-> c]

Digits == <<"0", "1", "2", "3", "4", "5", "6", "7", "8", "9">>

DigitChars == {Digits[i] : i \in 1..10}

DigitVal(c) == (CHOOSE i \in 1..10 : Digits[i] = c) - 1

LowerHex == {"a", "b", "c", "d", "e", "f"}

UpperHex == {"A", "B", "C", "D", "E", "F"}

ToLowerChar(c) ==
    CASE c = "A" -> "a" [] c = "B" -> "b" [] c = "C" -> "c"
      [] c = "D" -> "d" [] c = "E" -> "e" [] c = "F" -> "f"
      [] OTHER -> c

\* ECMAScript WhiteSpace and LineTerminator, which String.prototype.trim and
\* Number() strip.  A character that has no TLA+ string escape is written
\* as its code point.
WhiteSpace ==
    {" ", "\t", "\n", "\r", "\f", "U+000B", "U+00A0", "U+1680", "U+2000",
     "U+2001", "U+2002", "U+2003", "U+2004", "U+2005", "U+2006", "U+2007",
     "U+2008", "U+2009", "U+200A", "U+2028", "U+2029", "U+202F", "U+205F",
     "U+3000", "U+FEFF"}

(* ------------------------------ JSON ----------------------------------- *)

JStr(s) == [t |-> "str", v |-> s]

JNum(s) == [t |-> "num", v |-> s]

JNull == [t |-> "null", v |-> <<>>]

EmptyObj == [k \in {} |-> JNull]

\* request bodies as the JSON validator target sees them
ObjBody(f) == [kind |-> "object", f |-> f]

NonObjBody == [kind |-> "nonobject", f |-> EmptyObj]

MalformedBody == [kind |-> "malformed", f |-> EmptyObj]

(* ------------------------------ schema --------------------------------- *)

Todo == <<"t", "o", "d", "o">>

InProgress == <<"i", "n", "_", "p", "r", "o", "g", "r", "e", "s", "s">>

Done == <<"d", "o", "n", "e">>

Low == <<"l", "o", "w">>

Medium == <<"m", "e", "d", "i", "u", "m">>

High == <<"h", "i", "g", "h">>

taskStatusEnum == {Todo, InProgress, Done}

taskPriorityEnum == {Low, Medium, High}

TitleMaxLen == 256

LimitMin == 1

LimitMax == 100

LimitDefault == 20

OffsetMin == 0

OffsetDefault == 0


(* ------------------------- identifiers (UUIDs) ------------------------- *)

HexChars == DigitChars \cup LowerHex \cup UpperHex

\* positions of the hyphens in the 8-4-4-4-12 layout
HyphenPos == {9, 14, 19, 24}

UuidLen == 36

VersionPos == 15

VariantPos == 20

\* the test without the version and variant nibbles: any hyphenated 32 hex
\* digits pass
uuidRegexTestAnyVersion(id) ==
    /\ Len(id) = 36
    /\ \A i \in 1..Len(id) :
          IF i \in {9, 14, 19, 24} THEN id[i] = "-"
          ELSE id[i] \in DigitChars \cup LowerHex \cup UpperHex

\* /^[0-9a-f]{8}-[0-9a-f]{4}-4[0-9a-f]{3}-[89ab][0-9a-f]{3}-[0-9a-f]{12}$/i
uuidRegexTest(id) ==
    /\ Len(id) = UuidLen
    /\ \A i \in 1..Len(id) :
          IF i \in HyphenPos THEN id[i] = "-"
          ELSE IF i = VersionPos THEN id[i] = "4"
          ELSE IF i = VariantPos THEN id[i] \in {"8", "9", "a", "b", "A", "B"}
          ELSE id[i] \in HexChars

\* the uuid column type, text the store accepts as a uuid value: 32
\* hexadecimal digits of either case and any version, optionally in braces,
\* optionally with one hyphen after any group of four digits but the last
PgUuidValid(id) ==
    LET braces == id # <<>> /\ id[1] = "{"
        b      == IF braces THEN SubSeq(id, 2, Len(id) - 1) ELSE id
        hex(i) == Cardinality({j \in 1..(i - 1) : b[j] # "-"})
    IN  /\ braces => Len(id) >= 2 /\ id[Len(id)] = "}"
        /\ Cardinality({i \in 1..Len(b) : b[i] # "-"}) = 32
        /\ \A i \in 1..Len(b) :
              IF b[i] = "-"
              THEN /\ hex(i) % 4 = 0 /\ hex(i) >= 4 /\ hex(i) <= 28
                   /\ b[i - 1] # "-"
              ELSE b[i] \in HexChars

\* the uuid value a valid text denotes, in the form the store prints it:
\* lower case, hyphenated 8-4-4-4-12
PgUuidIn(id) ==
    LET isHex(c) == c \in HexChars
        hex      == SelectSeq(id, isHex)
    IN  [i \in 1..UuidLen |->
            IF i \in HyphenPos THEN "-"
            ELSE ToLowerChar(hex[i - Cardinality({h \in HyphenPos : h < i})])]

\* the n-th of the distinct values gen_random_uuid() returns: version 4,
\* variant a
Uuid(n) ==
    Rep("0", 8) \o <<"-">> \o Rep("0", 4) \o <<"-", "4">> \o Rep("0", 3)
      \o <<"-", "a">> \o Rep("0", 3) \o <<"-">> \o Rep("0", 11)
      \o <<Digits[n + 1]>>

(* --------------------------- number coercion --------------------------- *)

\* a digit text that TLC's integers can hold
RECURSIVE DigitsValue(_)
DigitsValue(s) ==
    IF s = <<>> THEN 0
    ELSE DigitsValue(SubSeq(s, 1, Len(s) - 1)) * 10 + DigitVal(s[Len(s)])

\* String.prototype.trim as Number() applies it
Trim(s) ==
    LET keep == {i \in 1..Len(s) : s[i] \notin WhiteSpace}
    IN  IF keep = {} THEN <<>>
        ELSE SubSeq(s, CHOOSE i \in keep : \A j \in keep : i <= j,
                       CHOOSE i \in keep : \A j \in keep : i >= j)

AllDigits(s) == \A i \in 1..Len(s) : s[i] \in DigitChars

\* Natural numbers of any size are sequences of decimal digits, the most
\* significant first and never 0; the empty sequence is 0.
Strip(a) ==
    LET nz == {i \in 1..Len(a) : a[i] # 0}
    IN  IF nz = {} THEN <<>>
        ELSE SubSeq(a, CHOOSE i \in nz : \A j \in nz : i <= j, Len(a))

\* -1, 0 or 1 as a is less than, equal to or greater than b
BigCmp(a, b) ==
    IF Len(a) # Len(b) THEN (IF Len(a) < Len(b) THEN -1 ELSE 1)
    ELSE LET d == {i \in 1..Len(a) : a[i] # b[i]}
         IN  IF d = {} THEN 0
             ELSE LET i == CHOOSE i \in d : \A j \in d : i <= j
                  IN  IF a[i] < b[i] THEN -1 ELSE 1

\* a * m + c for a multiplier m and a carry c of at most 2^20: the low half
\* of the digits first, its carry into the high half
MulAdd(a, m, c) ==
    LET RECURSIVE Mul(_, _)
        Mul(x, cin) ==
            IF Len(x) = 0 THEN [d |-> <<>>, carry |-> cin]
            ELSE IF Len(x) = 1
            THEN [d |-> <<(x[1] * m + cin) % 10>>,
                  carry |-> (x[1] * m + cin) \div 10]
            ELSE LET h  == Len(x) \div 2
                     lo == Mul(SubSeq(x, h + 1, Len(x)), cin)
                     hi == Mul(SubSeq(x, 1, h), lo.carry)
                 IN  IF lo.carry < 0 THEN lo
                     ELSE [d |-> hi.d \o lo.d, carry |-> hi.carry]
        RECURSIVE Small(_)
        Small(n) == IF n = 0 THEN <<>> ELSE Append(Small(n \div 10), n % 10)
        p == Mul(a, c)
    IN  Strip(Small(p.carry) \o p.d)

\* quotient q and remainder r of a by a divisor d of at most 2^20: the high
\* half of the digits first, its remainder into the low half
DivSmall(a, d) ==
    LET RECURSIVE Div(_, _)
        Div(x, rin) ==
            IF Len(x) = 0 THEN [q |-> <<>>, r |-> rin]
            ELSE IF Len(x) = 1
            THEN [q |-> <<(rin * 10 + x[1]) \div d>>,
                  r |-> (rin * 10 + x[1]) % d]
            ELSE LET h  == Len(x) \div 2
                     hi == Div(SubSeq(x, 1, h), rin)
                     lo == Div(SubSeq(x, h + 1, Len(x)), hi.r)
                 IN  IF hi.r < 0 THEN hi
                     ELSE [q |-> hi.q \o lo.q, r |-> lo.r]
        p == Div(a, 0)
    IN  [q |-> Strip(p.q), r |-> p.r]

\* a + b
BigAdd(a, b) ==
    LET n  == IF Len(a) > Len(b) THEN Len(a) ELSE Len(b)
        pa == [i \in 1..(n - Len(a)) |-> 0] \o a
        pb == [i \in 1..(n - Len(b)) |-> 0] \o b
        RECURSIVE Add(_, _, _)
        Add(from, to, cin) ==
            IF from > to THEN [d |-> <<>>, carry |-> cin]
            ELSE IF from = to
            THEN [d |-> <<(pa[from] + pb[from] + cin) % 10>>,
                  carry |-> (pa[from] + pb[from] + cin) \div 10]
            ELSE LET h  == (from + to) \div 2
                     lo == Add(h + 1, to, cin)
                     hi == Add(from, h, lo.carry)
                 IN  IF lo.carry < 0 THEN lo
                     ELSE [d |-> hi.d \o lo.d, carry |-> hi.carry]
        p == Add(1, n, 0)
    IN  Strip(<<p.carry>> \o p.d)

\* a * 2^n
RECURSIVE Shl(_, _)
Shl(a, n) ==
    IF n = 0 \/ a = <<>> THEN a
    ELSE LET k == IF n >= 20 THEN 20 ELSE 1
         IN  Shl(MulAdd(a, 2 ^ k, 0), n - k)

\* a divided by 2^n, rounded down
RECURSIVE Shr(_, _)
Shr(a, n) ==
    IF n = 0 \/ a = <<>> THEN a
    ELSE LET k == IF n >= 20 THEN 20 ELSE 1
         IN  Shr(DivSmall(a, 2 ^ k).q, n - k)

\* number of binary digits of a
RECURSIVE BitLen(_)
BitLen(a) ==
    IF a = <<>> THEN 0
    ELSE LET k == IF Len(a) > 7 THEN 20 ELSE 1
         IN  k + BitLen(Shr(a, k))

\* the Number that is the integer n, negated when neg: a TLC integer when it
\* fits one, its sign and digits otherwise (wide); safe when
\* Number.isSafeInteger
NumberResult(n, neg) ==
    LET Result(wide) ==
            [kind |-> "int",
             wide |-> wide,
             val |-> IF wide THEN [neg |-> neg, digits |-> n]
                     ELSE (IF neg THEN -1 ELSE 1)
                            * DigitsValue([i \in 1..Len(n) |-> Digits[n[i] + 1]]),
             safe |-> BitLen(n) <= 53]
    IN  Result(BigCmp(n, <<2, 1, 4, 7, 4, 8, 3, 6, 4, 7>>) > 0)

\* a Number that is no integer: "nan", "inf" (either sign) or "frac"
NoInteger(kind) == [kind |-> kind, wide |-> FALSE, val |-> 0, safe |-> FALSE]

\* the double nearest to n + (a fraction below 1 that is not 0 iff sticky),
\* ties to the even significand, for an integer n that is exact (fewer than
\* 54 binary digits, no fraction) or has 54 binary digits or more: of the
\* leading 54 binary digits `top` the last one decides, with the digits cut
\* off and the last digit of the 53 kept ones `q`, whether to round up
RoundToDouble(n, sticky, neg) ==
    LET Checked(v) ==
            IF BitLen(v) > 1024 THEN NoInteger("inf") ELSE NumberResult(v, neg)
        Rounded(s, top, q) ==
            LET up == /\ top[Len(top)] % 2 = 1
                      /\ sticky \/ Shl(top, s) # n \/ q[Len(q)] % 2 = 1
            IN  Shl(MulAdd(q, 1, IF up THEN 1 ELSE 0), s + 1)
        Top(s, top) == Rounded(s, top, Shr(top, 1))
        Nearest(s) == IF s < 0 THEN n ELSE Top(s, Shr(n, s))
    IN  Checked(Nearest(BitLen(n) - 54))

\* the Number read from i + r / 10^Len(r) for i below 2^53 and r not 0: the
\* integer below or above when the fraction is within half a unit in the
\* last place of it (ties to the even significand), no integer otherwise
WithFraction(i, r, neg) ==
    LET k   == Len(r)
        one == <<1>> \o [j \in 1..k |-> 0]
        \* x * 2^h compared with 10^k
        Cmp(x, h) == BigCmp(Shl(x, h), one)
        Below(b, sr) ==
            IF i = <<>> /\ Len(sr) - k >= -320 THEN 1
            ELSE Cmp(sr, IF i = <<>> THEN 1075 ELSE 54 - b)
        \* 10^k - r, against 2^(b - 54)
        Above(b) == Cmp(MulAdd(Strip([j \in 1..k |-> 9 - r[j]]), 1, 1), 54 - b)
        Pick(low, high, even) ==
            IF low < 0 \/ (low = 0 /\ even) THEN 0
            ELSE IF low = 0 \/ high <= 0 THEN 1
            ELSE 2
        Out(c) == IF c = 2 THEN NoInteger("frac")
                  ELSE NumberResult(MulAdd(i, 1, c), neg)
        With(b) == Out(Pick(Below(b, Strip(r)), Above(b),
                            b < 53 \/ i[Len(i)] % 2 = 0))
    IN  With(BitLen(i))

\* the Number read from the digits ip before and fp after the decimal point,
\* times ten to the power expo: the digits are padded with zeros and cut at
\* the decimal point into an integer and a fraction
DecimalValue(ip, fp, expo, neg) ==
    LET x    == expo - Len(fp)
        d    == Strip([j \in 1..(Len(ip) + Len(fp)) |->
                          DigitVal((ip \o fp)[j])])
        zero == d = <<>> \/ Len(d) + x < -330
        pad  == IF zero THEN <<>>
                ELSE IF x >= 0 THEN d \o [j \in 1..x |-> 0]
                ELSE [j \in 1..(0 - x - Len(d)) |-> 0] \o d
        cut  == IF zero \/ Len(d) + x < 0 THEN 0 ELSE Len(d) + x
        Go(n, r, exact) ==
            IF exact \/ BitLen(n) >= 54 THEN RoundToDouble(n, ~exact, neg)
            ELSE WithFraction(n, r, neg)
    IN  IF d # <<>> /\ Len(d) + x > 310 THEN NoInteger("inf")
        ELSE Go(Strip(SubSeq(pad, 1, cut)), SubSeq(pad, cut + 1, Len(pad)),
                \A j \in (cut + 1)..Len(pad) : pad[j] = 0)

\* position of the first decimal point, or one past the end
DotPos(u) ==
    IF \E i \in 1..Len(u) : u[i] = "."
    THEN CHOOSE i \in 1..Len(u) :
            u[i] = "." /\ \A j \in 1..(i - 1) : u[j] # "."
    ELSE Len(u) + 1

\* the value of a signed exponent; one of six digits or more counts as
\* +-99999, which is beyond every double
ExpValue(x) ==
    LET u  == IF x[1] \in {"+", "-"} THEN Tail(x) ELSE x
        nz == {i \in 1..Len(u) : u[i] # "0"}
        t  == IF nz = {} THEN <<>>
              ELSE SubSeq(u, CHOOSE i \in nz : \A j \in nz : i <= j, Len(u))
        v  == IF Len(t) > 5 THEN 99999 ELSE DigitsValue(t)
    IN  IF x[1] = "-" THEN 0 - v ELSE v

\* StrDecimalLiteral without its sign: digits, a decimal point and digits,
\* with an optional exponent part
SplitAt(m, dot, x, hasExp, neg) ==
    LET ip == SubSeq(m, 1, dot - 1)
        fp == SubSeq(m, dot + 1, Len(m))
        xu == IF x # <<>> /\ x[1] \in {"+", "-"} THEN Tail(x) ELSE x
    IN  IF /\ AllDigits(ip) /\ AllDigits(fp) /\ Len(ip) + Len(fp) >= 1
           /\ hasExp => (xu # <<>> /\ AllDigits(xu))
        THEN DecimalValue(ip, fp, IF hasExp THEN ExpValue(x) ELSE 0, neg)
        ELSE NoInteger("nan")

Unsigned(u, neg) ==
    IF u = <<"I", "n", "f", "i", "n", "i", "t", "y">> THEN NoInteger("inf")
    ELSE LET \* position of the exponent indicator, or one past the end
             es == {i \in 1..Len(u) : u[i] \in {"e", "E"}}
             ep == IF es = {} THEN Len(u) + 1
                   ELSE CHOOSE i \in es : \A j \in es : i <= j
             m  == SubSeq(u, 1, ep - 1)
         IN  SplitAt(m, DotPos(m), SubSeq(u, ep + 1, Len(u)), ep <= Len(u), neg)

\* 0x, 0o and 0b literals: no sign, one digit of the radix or more
RadixValue(t) ==
    LET bits   == CASE t[2] \in {"x", "X"} -> 4
                    [] t[2] \in {"o", "O"} -> 3
                    [] OTHER -> 1
        val(c) == IF c \in DigitChars THEN DigitVal(c)
                  ELSE 10 + (CHOOSE j \in 0..5 :
                        ToLowerChar(c) = <<"a", "b", "c", "d", "e", "f">>[j + 1])
        nz     == {i \in 3..Len(t) : t[i] # "0"}
        first  == CHOOSE i \in nz : \A j \in nz : i <= j
        RECURSIVE Go(_, _)
        Go(from, to) ==
            IF from = to THEN MulAdd(<<>>, 1, val(t[from]))
            ELSE LET h == (from + to) \div 2
                 IN  BigAdd(Shl(Go(from, h), bits * (to - h)), Go(h + 1, to))
    IN  IF Len(t) < 3 \/ \E i \in 3..Len(t) :
                            t[i] \notin HexChars \/ val(t[i]) >= 2 ^ bits
        THEN NoInteger("nan")
        ELSE IF nz # {} /\ bits * (Len(t) - first) > 1100 THEN NoInteger("inf")
        ELSE RoundToDouble(IF nz = {} THEN <<>> ELSE Go(first, Len(t)),
                           FALSE, FALSE)

Signed(t) ==
    IF t = <<>> THEN [kind |-> "int", wide |-> FALSE, val |-> 0, safe |-> TRUE]
    ELSE IF Len(t) >= 2 /\ t[1] = "0"
            /\ t[2] \in {"x", "X", "o", "O", "b", "B"} THEN RadixValue(t)
    ELSE Unsigned(IF t[1] \in {"+", "-"} THEN Tail(t) ELSE t, t[1] = "-")

\* Number(text) as z.coerce.number() applies it to a query-string value
\* (StringToNumber of ECMAScript): white space and line terminators are
\* stripped, the empty text is 0, a StringNumericLiteral is the double
\* nearest to its value, anything else is NaN
StringToNumber(s) == Signed(Trim(s))

(* --------------------------- request schemas --------------------------- *)

Has(f, k) == k \in DOMAIN f

\* z.string().min(1).max(256)
TitleOk(v) == v.t = "str" /\ Len(v.v) >= 1 /\ Len(v.v) <= TitleMaxLen

\* z.string().nullable()
DescriptionOk(v) == v.t \in {"str", "null"}

\* z.string() in place of the enum
StatusOkAnyString(v) == v.t = "str"

\* z.enum(["todo", "in_progress", "done"])
StatusOk(v) == v.t = "str" /\ v.v \in taskStatusEnum

\* z.enum(["low", "medium", "high"])
PriorityOk(v) == v.t = "str" /\ v.v \in taskPriorityEnum

BodyKeys == {"title", "description", "status", "priority"}

\* createTaskSchema.safeParse: unknown keys are stripped, absent status and
\* priority take their defaults, an absent description stays absent
createTaskSchema(b) ==
    LET f == b.f
        ok == /\ b.kind = "object"
              /\ Has(f, "title") /\ TitleOk(f["title"])
              /\ Has(f, "description") => DescriptionOk(f["description"])
              /\ Has(f, "status") => StatusOk(f["status"])
              /\ Has(f, "priority") => PriorityOk(f["priority"])
        keys == {"title", "status", "priority"}
                  \cup (DOMAIN f \cap {"description"})
    IN  IF ~ok THEN [success |-> FALSE, data |-> EmptyObj]
        ELSE [success |-> TRUE,
              data |-> [k \in keys |->
                          IF Has(f, k) THEN f[k]
                          ELSE IF k = "status" THEN JStr(Todo)
                          ELSE JStr(Medium)]]

\* the schema with .passthrough(): unknown keys stay in the parsed body
updateTaskSchemaPassthrough(b) ==
    LET f == b.f
        ok == /\ b.kind = "object"
              /\ Has(f, "title") => TitleOk(f["title"])
              /\ Has(f, "description") => DescriptionOk(f["description"])
              /\ Has(f, "status") => StatusOk(f["status"])
              /\ Has(f, "priority") => PriorityOk(f["priority"])
    IN  IF ~ok THEN [success |-> FALSE, data |-> EmptyObj]
        ELSE [success |-> TRUE, data |-> f]

\* updateTaskSchema.safeParse: every field optional, no defaults, unknown
\* keys stripped
updateTaskSchema(b) ==
    LET f == b.f
        ok == /\ b.kind = "object"
              /\ Has(f, "title") => TitleOk(f["title"])
              /\ Has(f, "description") => DescriptionOk(f["description"])
              /\ Has(f, "status") => StatusOk(f["status"])
              /\ Has(f, "priority") => PriorityOk(f["priority"])
    IN  IF ~ok THEN [success |-> FALSE, data |-> EmptyObj]
        ELSE [success |-> TRUE,
              data |-> [k \in DOMAIN f \cap BodyKeys |-> f[k]]]

\* the zod API the build resolves: the dependency is installed without a
\* version.  .int() is Number.isInteger in the v3 API and a safe integer in
\* the v4 API
ZodApis == {"v3", "v4"}

\* z.coerce.number().int().min(lo).max(hi), for bounds that are safe integers
CoercedIntOk(s, lo, hi) ==
    LET Ok(n) == n.kind = "int" /\ ~n.wide /\ n.val >= lo /\ n.val <= hi
    IN  Ok(StringToNumber(s))

\* z.coerce.number().int().min(0): offset has no upper bound of its own
OffsetOk(s, api) ==
    LET Ok(n) == /\ n.kind = "int"
                 /\ IF n.wide THEN ~n.val.neg ELSE n.val >= OffsetMin
                 /\ api = "v4" => n.safe
    IN  Ok(StringToNumber(s))

NoFilter == <<>>

\* querySchema.safeParse on the query-string map; `wide` tells that the
\* offset is written with its digits
querySchema(q, api) ==
    LET Parsed(l, o) ==
            [success |-> TRUE,
             wide |-> o.wide,
             status |-> IF Has(q, "status") THEN q["status"] ELSE NoFilter,
             priority |-> IF Has(q, "priority") THEN q["priority"]
                          ELSE NoFilter,
             limit |-> l.val,
             offset |-> o.val]
    IN  IF /\ Has(q, "status") => q["status"] \in taskStatusEnum
           /\ Has(q, "priority") => q["priority"] \in taskPriorityEnum
           /\ Has(q, "limit") => CoercedIntOk(q["limit"], LimitMin, LimitMax)
           /\ Has(q, "offset") => OffsetOk(q["offset"], api)
        THEN Parsed(IF Has(q, "limit") THEN StringToNumber(q["limit"])
                    ELSE [val |-> LimitDefault, wide |-> FALSE],
                    IF Has(q, "offset") THEN StringToNumber(q["offset"])
                    ELSE [val |-> OffsetDefault, wide |-> FALSE])
        ELSE [success |-> FALSE, status |-> NoFilter, priority |-> NoFilter,
              limit |-> 0, offset |-> 0, wide |-> FALSE]

(* ------------------------------- state --------------------------------- *)

VARIABLES
    store,      \* the tasks table: uuid value |-> row
    nextId,     \* number of identifiers the store has assigned
    appClock,   \* the application's clock (new Date()), in milliseconds
    dbClock,    \* the database's clock (now())
    reading,    \* requests whose JSON body the validator awaits
    pending,    \* storage calls a handler awaits: issued, then executed by
                \* the store (done), then answered by the handler
    reqs,       \* number of requests received
    budget,     \* number of requests the clients send in this behaviour
    resp,       \* the response produced last
    hist        \* per assigned id: the row as created, whether an update or
                \* delete of it was committed, the request that deleted it
                \* the number of requests received when that delete was
                \* answered (gone), whether the id was assigned again since

vars ==
    <<store, nextId, appClock, dbClock, reading, pending, reqs, budget, resp,
      hist>>

NoId == <<>>

NoBody == ObjBody(EmptyObj)

NoQuery == EmptyObj

\* a request header: no value when absent, one value when present
NoHeader == <<>>

Tasks == <<"t", "a", "s", "k", "s">>

\* a request to a task route: its method and its path below the base path
\* /api, the :id parameter, the JSON body, the query string and the inbound
\* X-Request-Id header
Request(op, id, body, query, h) ==
    [op |-> op, id |-> id, body |-> body, query |-> query, xRequestId |-> h,
     method |-> CASE op = "create" -> "POST"
                  [] op = "update" -> "PUT"
                  [] op = "delete" -> "DELETE"
                  [] OTHER -> "GET",
     path |-> IF id = NoId THEN <<Tasks>> ELSE <<Tasks, id>>]

Rows == {store[i] : i \in DOMAIN store}

(* ----------------------------- responses ------------------------------- *)

\* the response headers the middleware writes, each absent or present
NoHeaders ==
    [xRequestId |-> <<>>, serverTiming |-> <<>>, xResponseTime |-> <<>>]

\* no request was answered yet
NoResponse ==
    [n |-> 0, req |-> Request("none", NoId, NoBody, NoQuery, NoHeader),
     status |-> 0, via |-> "none", code |-> "", message |-> "",
     data |-> <<>>, before |-> <<>>, meta |-> <<>>, calls |-> 0,
     thrown |-> <<>>, headers |-> NoHeaders, hasBody |-> FALSE]

\* an update answered with the row as it was read before the write
SuccessFromEarlierRead(n, req, status, data, before, meta, calls) ==
    [n |-> n, req |-> req, status |-> status, via |-> "handler",
     code |-> "", message |-> "",
     data |-> IF req.op = "update" THEN before ELSE data,
     before |-> before, meta |-> meta, calls |-> calls, thrown |-> <<>>,
     headers |-> NoHeaders, hasBody |-> TRUE]

\* c.json({success: true, data, meta?}) without its status argument
SuccessAlways200(n, req, status, data, before, meta, calls) ==
    [n |-> n, req |-> req, status |-> 200, via |-> "handler",
     code |-> "", message |-> "", data |-> data, before |-> before,
     meta |-> meta, calls |-> calls, thrown |-> <<>>, headers |-> NoHeaders,
     hasBody |-> TRUE]

\* c.json({success: true, data, meta?}, status) written by a route handler
\* that has issued `calls` storage calls
Success(n, req, status, data, before, meta, calls) ==
    [n |-> n, req |-> req, status |-> status, via |-> "handler",
     code |-> "", message |-> "", data |-> data, before |-> before,
     meta |-> meta, calls |-> calls, thrown |-> <<>>, headers |-> NoHeaders,
     hasBody |-> TRUE]

ApiError(statusCode, message, code) ==
    [isApiError |-> TRUE, statusCode |-> statusCode, message |-> message,
     code |-> code]

\* any other thrown error (a rejected storage call, an HTTPException)
OtherError(message) ==
    [isApiError |-> FALSE, statusCode |-> 0, message |-> message,
     code |-> ""]

\* a translator that passes the thrown error's own message on
errorHandlerLeaks(n, req, err, calls) ==
    [n |-> n, req |-> req,
     status |-> IF err.isApiError THEN err.statusCode ELSE 500,
     via |-> "errorHandler",
     code |-> IF err.isApiError THEN err.code ELSE "INTERNAL_ERROR",
     message |-> err.message,
     data |-> <<>>, before |-> <<>>, meta |-> <<>>, calls |-> calls,
     thrown |-> <<err>>, headers |-> NoHeaders, hasBody |-> TRUE]

\* app.onError(errorHandler): the response for a thrown error
errorHandler(n, req, err, calls) ==
    [n |-> n, req |-> req,
     status |-> IF err.isApiError THEN err.statusCode ELSE 500,
     via |-> "errorHandler",
     code |-> IF err.isApiError THEN err.code ELSE "INTERNAL_ERROR",
     message |-> IF err.isApiError THEN err.message
                 ELSE "Internal Server Error",
     data |-> <<>>, before |-> <<>>, meta |-> <<>>, calls |-> calls,
     thrown |-> <<err>>, headers |-> NoHeaders, hasBody |-> TRUE]

\* zValidator without a hook: a failed parse is answered c.json(result, 400),
\* the body being {success: false, error: <the ZodError>}.  The error has no
\* code.  As JSON it is {issues, name} under the v3 API, without a message,
\* and {name, message} under the v4 API, where the message is the list of
\* issues as JSON text and so never empty
zValidatorReject(n, req, api) ==
    [n |-> n, req |-> req, status |-> 400, via |-> "zValidator",
     code |-> "",
     message |-> IF api = "v4" THEN "[ <the issues, as JSON text> ]" ELSE "",
     data |-> <<>>, before |-> <<>>,
     meta |-> <<>>, calls |-> 0, thrown |-> <<>>, headers |-> NoHeaders,
     hasBody |-> TRUE]

\* the validator's "json" target: a body that does not parse as JSON makes it
\* throw HTTPException(400), which reaches errorHandler like any other error
MalformedJson == OtherError("Malformed JSON in request body")

(* ------------------------------ middleware ----------------------------- *)

\* crypto.randomUUID() for the n-th request: version 4, variant 8, never a
\* value generated before
RandomUuid(n) ==
    Rep("0", 8) \o <<"-">> \o Rep("0", 4) \o <<"-", "4">> \o Rep("0", 3)
      \o <<"-", "8">> \o Rep("0", 3) \o <<"-">> \o Rep("0", 11)
      \o <<Digits[n + 1]>>

\* requestId(): c.req.header("X-Request-Id") ?? crypto.randomUUID()
requestId(h, n) == IF h # NoHeader THEN h[1] ELSE RandomUuid(n)

RECURSIVE NatToText(_)
NatToText(n) ==
    IF n < 10 THEN <<Digits[n + 1]>>
    ELSE NatToText(n \div 10) \o <<Digits[(n % 10) + 1]>>

\* (performance.now() - start).toFixed(2), the clock counting whole
\* milliseconds
ToFixed2(d) == NatToText(d) \o <<".", "0", "0">>

TotalDur == <<"t", "o", "t", "a", "l", ";", "d", "u", "r", "=">>

Ms == <<"m", "s">>

\* the response as it leaves the application: the handler's or error
\* handler's response with the headers timing(), requestId() and cors() set
\* around it.  The answer to a HEAD request is the answer to the same request
\* as a GET, status and headers, without its body
Middleware(r, start, end) ==
    LET head == r.req.method = "HEAD"
    IN  [r EXCEPT !.headers =
                    [xRequestId |-> <<requestId(r.req.xRequestId, r.n)>>,
                     serverTiming |-> <<TotalDur \o ToFixed2(end - start)>>,
                     xResponseTime |-> <<ToFixed2(end - start) \o Ms>>],
                  !.hasBody = @ /\ ~head,
                  !.code = IF head THEN "" ELSE @,
                  !.message = IF head THEN "" ELSE @,
                  !.data = IF head THEN <<>> ELSE @,
                  !.meta = IF head THEN <<>> ELSE @]

(* --------------------------- storage operations ------------------------ *)

\* INSERT INTO tasks (...) VALUES (...) RETURNING *: id, created_at and
\* updated_at take their column defaults, an absent description is NULL
InsertRow(id, data, now) ==
    [id |-> id,
     title |-> data["title"].v,
     description |-> IF Has(data, "description") THEN data["description"]
                     ELSE JNull,
     status |-> data["status"].v,
     priority |-> data["priority"].v,
     createdAt |-> now,
     updatedAt |-> now]

\* an update that writes the create defaults for an absent status or priority
UpdateRowWithDefaults(row, data, ts) ==
    [row EXCEPT
       !.id = IF Has(data, "id") THEN data["id"].v ELSE @,
       !.title = IF Has(data, "title") THEN data["title"].v ELSE @,
       !.description = IF Has(data, "description") THEN data["description"]
                       ELSE @,
       !.status = IF Has(data, "status") THEN data["status"].v ELSE Todo,
       !.priority = IF Has(data, "priority") THEN data["priority"].v
                    ELSE Medium,
       !.updatedAt = ts]

\* UPDATE tasks SET ...body, updated_at = ts: only the columns the validated
\* body names
UpdateRow(row, data, ts) ==
    [row EXCEPT
       !.id = IF Has(data, "id") THEN data["id"].v ELSE @,
       !.title = IF Has(data, "title") THEN data["title"].v ELSE @,
       !.description = IF Has(data, "description") THEN data["description"]
                       ELSE @,
       !.status = IF Has(data, "status") THEN data["status"].v ELSE @,
       !.priority = IF Has(data, "priority") THEN data["priority"].v ELSE @,
       !.updatedAt = ts]

\* a delete that only reports the row and leaves it in the table
DeleteRowKeeps(tbl, key) == tbl

\* DELETE FROM tasks WHERE id = key: the table without that row
DeleteRow(tbl, key) == [i \in DOMAIN tbl \ {key} |-> tbl[i]]

\* a write that replaces the table by the one row
PutRowAlone(tbl, key, row) == [i \in {key} |-> row]

\* the table with the row of `key` set to `row`
PutRow(tbl, key, row) ==
    [i \in DOMAIN tbl \cup {key} |-> IF i = key THEN row ELSE tbl[i]]

\* a select without its where clause: some row of the table, another one
\* than the row of `key` when there is one
SelectByIdUnfiltered(tbl, key) ==
    IF DOMAIN tbl = {} THEN <<>>
    ELSE <<tbl[CHOOSE k \in DOMAIN tbl :
                   DOMAIN tbl \ {key} # {} => k # key]>>

\* SELECT ... WHERE id = key LIMIT 1: the rows found, at most one
SelectById(tbl, key) == IF key \in DOMAIN tbl THEN <<tbl[key]>> ELSE <<>>

\* the filter fragments the list handler pushes: one per present filter
Conditions(status, priority) ==
    (IF status # NoFilter THEN <<[col |-> "status", val |-> status]>>
     ELSE <<>>)
    \o (IF priority # NoFilter THEN <<[col |-> "priority", val |-> priority]>>
        ELSE <<>>)

\* eq(column, value)
Eq(row, c) == row[c.col] = c.val

\* the fragments combined with or() instead of and()
WhereAny(row, conds) ==
    IF Len(conds) = 0 THEN TRUE
    ELSE \E i \in 1..Len(conds) : row[conds[i].col] = conds[i].val

\* where(conditions.length === 1 ? conditions[0] : and(...conditions)), and no
\* where clause at all without conditions
Where(row, conds) ==
    IF Len(conds) = 0 THEN TRUE
    ELSE IF Len(conds) = 1 THEN Eq(row, conds[1])
    ELSE \A i \in 1..Len(conds) : Eq(row, conds[i])

\* the orders in which the store may return a set of rows (no ORDER BY)
Orders(S) ==
    {o \in [1..Cardinality(S) -> S] :
        \A i, j \in 1..Cardinality(S) : o[i] = o[j] => i = j}

\* .limit(limit).offset(offset) on rows in the order `o`
LimitOffset(o, limit, offset) ==
    SubSeq(o, offset + 1,
           IF offset + limit < Len(o) THEN offset + limit ELSE Len(o))

\* the bigint that OFFSET takes: a number below 2^63, the driver sending the
\* number as the text JavaScript prints it
PgInt8Valid(v, wide) ==
    ~wide \/ BigCmp(v.digits, <<9, 2, 2, 3, 3, 7, 2, 0, 3, 6, 8, 5, 4, 7, 7,
                                5, 8, 0, 8>>) < 0

(* ------------------------------- inputs -------------------------------- *)

\* a well-formed version-4 identifier the store never assigns
\* the varchar and text column types: a value cannot hold the character
\* U+0000, the statement that carries one is refused
PgTextValid(data) ==
    \A k \in DOMAIN data \cap {"title", "description"} :
        data[k].t = "str" => \A i \in 1..Len(data[k].v) : data[k].v[i] # "U+0000"

MissingId == Uuid(0)

\* a well-formed identifier of version 1: a uuid for the store, not for the
\* handler's regular expression
V1Id == [MissingId EXCEPT ![VersionPos] = "1"]

NotAUuid == <<"n", "o", "t", "-", "a", "-", "u", "u", "i", "d">>

\* the upper-case spelling of an identifier
Upper(id) == [id EXCEPT ![VariantPos] = "A"]

\* identifiers a client can put in a path: those it was given in a response
\* and texts of its own
PathIds == {Uuid(k) : k \in 1..nextId} \cup {MissingId}

\* spellings of the first stored identifier that the store reads as a uuid
\* and the handler's regular expression does not: without its hyphens, and
\* in braces
OtherForms ==
    {SelectSeq(Uuid(1), LAMBDA c : c # "-"), <<"{">> \o Uuid(1) \o <<"}">>}

AllPathIds ==
    PathIds \cup {Upper(Uuid(k)) : k \in 1..nextId} \cup OtherForms
      \cup {V1Id, NotAUuid}

TitleA == <<"a">>

TitleB == <<"b">>

TitleLongest == Rep("x", TitleMaxLen)

TitleTooLong == Rep("x", TitleMaxLen + 1)

TextD == <<"d">>

Bogus == <<"b", "o", "g", "u", "s">>

BodyA == ObjBody("title" :> JStr(TitleA))

BodyB ==
    ObjBody("title" :> JStr(TitleB) @@ "description" :> JStr(TextD)
              @@ "status" :> JStr(Done) @@ "priority" :> JStr(High))

BodyAHigh == ObjBody("title" :> JStr(TitleA) @@ "priority" :> JStr(High))

CreateBodies == {BodyA, BodyB}

\* bodies the schema accepts; the last two hold the character U+0000
ValidCreateBodies ==
    { BodyA, BodyB, BodyAHigh,
      ObjBody("title" :> JStr(<<" ">>) @@ "description" :> JNull),
      ObjBody("title" :> JStr(TitleLongest) @@ "id" :> JStr(MissingId)
                @@ "createdAt" :> JNum(<<"0">>)),
      ObjBody("title" :> JStr(<<"U+0000">>)),
      ObjBody("title" :> JStr(TitleA)
                @@ "description" :> JStr(<<"d", "U+0000">>)) }

InvalidCreateBodies ==
    { ObjBody(EmptyObj),
      ObjBody("title" :> JNum(<<"5">>)),
      ObjBody("title" :> JStr(<<>>)),
      ObjBody("title" :> JStr(TitleTooLong)),
      ObjBody("title" :> JStr(<<" ">> \o TitleLongest)),
      ObjBody("title" :> JStr(TitleA) @@ "status" :> JStr(Bogus)),
      ObjBody("title" :> JStr(TitleA) @@ "priority" :> JStr(Bogus)),
      ObjBody("title" :> JStr(TitleA) @@ "description" :> JNum(<<"5">>)),
      ObjBody("status" :> JStr(Done)),
      NonObjBody,
      MalformedBody }

AllCreateBodies == ValidCreateBodies \cup InvalidCreateBodies

UpdateBodies ==
    { ObjBody("status" :> JStr(Done)),
      ObjBody("title" :> JStr(TitleB) @@ "priority" :> JStr(Low)) }

\* update bodies that name at least one recognised key and pass the schema;
\* the last two hold the character U+0000
ValidUpdateBodies ==
    { ObjBody("status" :> JStr(Done)),
      ObjBody("title" :> JStr(TitleB) @@ "priority" :> JStr(Low)),
      ObjBody("description" :> JNull),
      ObjBody("status" :> JStr(InProgress) @@ "description" :> JStr(TextD)
                @@ "id" :> JStr(MissingId) @@ "createdAt" :> JNum(<<"9">>)),
      ObjBody("title" :> JStr(<<"U+0000">>)),
      ObjBody("description" :> JStr(<<"U+0000">>)) }

\* update bodies without any recognised key
EmptyUpdateBodies ==
    { ObjBody(EmptyObj),
      ObjBody("id" :> JStr(MissingId) @@ "updatedAt" :> JNum(<<"0">>)) }

InvalidUpdateBodies ==
    { ObjBody("title" :> JStr(<<>>)),
      ObjBody("status" :> JStr(Bogus)),
      NonObjBody,
      MalformedBody }

AllUpdateBodies ==
    ValidUpdateBodies \cup EmptyUpdateBodies \cup InvalidUpdateBodies

Queries == {NoQuery, "limit" :> <<"1">> @@ "offset" :> <<"1">>}

\* queries the schema rejects by its wording: a limit outside 1..100, a
\* negative offset, a value that is no integer, a value outside an enum
BadQueries ==
    { "limit" :> <<"0">>,
      "limit" :> <<"1", "0", "1">>,
      "limit" :> <<"-", "1">>,
      "limit" :> <<"1", ".", "5">>,
      "limit" :> <<"a", "b", "c">>,
      "limit" :> <<>>,
      "offset" :> <<"-", "1">>,
      "offset" :> <<"1", ".", "5">>,
      "offset" :> <<"a", "b", "c">>,
      "offset" :> <<>>,
      "offset" :> <<" ">>,
      "status" :> Bogus,
      "priority" :> Bogus }

\* the queries of the single requests; the last set holds numbers written as
\* Number() reads them and a person would not: an exponent, a radix prefix,
\* a line terminator before the digits, more fraction digits than a double
\* holds, an offset beyond 2^31, beyond 2^53 and beyond 2^63
AllQueries ==
    Queries \cup BadQueries
      \cup { "status" :> Done,
             "priority" :> High,
             "status" :> Done @@ "priority" :> High,
             "status" :> Todo @@ "priority" :> High,
             "limit" :> <<"1">>,
             "limit" :> <<"1", "0", "0">> @@ "offset" :> <<"2">>,
             "limit" :> <<" ", "2">> @@ "offset" :> <<"0">>,
             "offset" :> <<"1">> }
      \cup { "limit" :> <<"1", "e", "2">>,
             "limit" :> <<"\r", "5">>,
             "limit" :> <<"0", "x", "1", "0">>,
             "limit" :>
               <<"1", ".", "0", "0", "0", "0", "0", "0", "0", "0", "0",
                 "0", "0", "0", "0", "0", "0", "0", "0", "0", "1">>,
             "offset" :> <<"\r">>,
             "offset" :>
               <<"2", "1", "4", "7", "4", "8", "3", "6", "4", "8">>,
             "offset" :>
               <<"9", "0", "0", "7", "1", "9", "9", "2", "5", "4", "7",
                 "4", "0", "9", "9", "3">>,
             "offset" :>
               <<"1", "0", "0", "0", "0", "0", "0", "0", "0", "0", "0",
                 "0", "0", "0", "0", "0", "0", "0", "0", "0">> }

(* ------------------------------- handlers ------------------------------ *)

Init ==
    /\ store = EmptyObj
    /\ nextId = 0
    /\ appClock = 0
    /\ dbClock = 0
    /\ reading = {}
    /\ pending = {}
    /\ reqs = 0
    /\ budget = MaxRequests
    /\ resp = NoResponse
    /\ hist = EmptyObj

\* history of an id the store has just assigned for the first time: the row
\* as created, whether an update or delete of the id was committed, the
\* request whose delete removed the row, the number of requests received
\* when that delete was answered (gone, 0 before), and whether the id was
\* assigned again to a task created since that delete was executed
Created(row) ==
    [created |-> row, changed |-> FALSE, deletedBy |-> 0, gone |-> 0,
     again |-> FALSE]

\* what an awaited storage call resolves to: the rows returned, the row as it
\* was before a write, or the error the call rejects with
NoOut == [rows |-> <<>>, before |-> <<>>, err |-> <<>>]

\* a request in its handler: the request and its number, the validated
\* input, the timestamp the handler read, the reading of timing()'s clock on
\* entry, the number of storage calls the handler has issued, whether the
\* store has executed the call the handler awaits
Call(n, req, data, ts, start) ==
    [rid |-> n, req |-> req, data |-> data, ts |-> ts, start |-> start,
     calls |-> 0, done |-> FALSE, out |-> NoOut]

\* the handler of `c` issues a storage call (await db...) and is suspended
Issue(c) == pending \cup {[c EXCEPT !.calls = @ + 1]}

\* the call of `p` resolves to `out`, or rejects with the error `lost` when
\* the store's reply does not arrive
Resolve(p, out, lost) ==
    (pending \ {p})
      \cup {[p EXCEPT !.done = TRUE,
                      !.out = IF lost = <<>> THEN out
                              ELSE [NoOut EXCEPT
                                      !.err = <<OtherError(lost[1])>>]]}

\* GET /tasks (a HEAD is served by the same handler) up to its storage call:
\* validate the query, build the select with the present filters and issue it
ListTasks(q, h, m) ==
    /\ reqs < budget
    /\ \E api \in ZodApis :
         LET Handle(n, req, v) ==
                 IF ~v.success
                 THEN /\ resp' = Middleware(zValidatorReject(n, req, api),
                                            appClock, appClock)
                      /\ UNCHANGED pending
                 ELSE /\ Cardinality(pending) < MaxPending
                      /\ pending' = Issue(Call(n, req, v, 0, appClock))
                      /\ UNCHANGED resp
         IN  Handle(reqs + 1,
                    [Request("list", NoId, NoBody, q, h) EXCEPT !.method = m],
                    querySchema(q, api))
    /\ reqs' = reqs + 1
    /\ UNCHANGED <<reading, store, nextId, appClock, dbClock, budget, hist>>

\* the store executes SELECT ... WHERE ... LIMIT $1 OFFSET $2: the rows in
\* one of the orders it may return them in; an offset beyond bigint is an
\* error of the statement
ExecList(p, lost) ==
    /\ p \in pending /\ ~p.done
    /\ p.req.op = "list"
    /\ IF ~PgInt8Valid(p.data.offset, p.data.wide)
       THEN pending' = Resolve(p, [NoOut EXCEPT !.err =
                         <<OtherError("value out of range for type bigint")>>],
                         lost)
       ELSE LET conds == Conditions(p.data.status, p.data.priority)
                found == {r \in Rows : Where(r, conds)}
            IN  \E o \in Orders(found) :
                  pending' = Resolve(p, [NoOut EXCEPT !.rows =
                      IF p.data.wide THEN <<>>
                      ELSE LimitOffset(o, p.data.limit, p.data.offset)],
                      lost)
    /\ UNCHANGED <<reading, store, nextId, appClock, dbClock, reqs, budget,
                   resp, hist>>

\* GET /tasks/:id (a HEAD is served by the same handler) up to its storage
\* call: check the id's format, issue the select
GetTask(id, h, m) ==
    /\ reqs < budget
    /\ LET n == reqs + 1
           req == [Request("get", id, NoBody, NoQuery, h) EXCEPT !.method = m]
       IN  IF ~uuidRegexTest(id)
           THEN /\ resp' = Middleware(errorHandler(n, req,
                      ApiError(400, "Invalid task ID format", "INVALID_ID"),
                      0), appClock, appClock)
                /\ UNCHANGED pending
           ELSE /\ Cardinality(pending) < MaxPending
                /\ pending' = Issue(Call(n, req, EmptyObj, 0, appClock))
                /\ UNCHANGED resp
    /\ reqs' = reqs + 1
    /\ UNCHANGED <<reading, store, nextId, appClock, dbClock, budget, hist>>

\* the store executes SELECT ... WHERE id = $1 LIMIT 1
ExecGet(p, lost) ==
    /\ p \in pending /\ ~p.done
    /\ p.req.op = "get"
    /\ pending' = Resolve(p, [NoOut EXCEPT !.rows =
                                SelectById(store, PgUuidIn(p.req.id))], lost)
    /\ UNCHANGED <<reading, store, nextId, appClock, dbClock, reqs, budget,
                   resp, hist>>

\* a POST or PUT enters the middleware chain: timing() reads the clock,
\* requestId() and cors() run, and the json validator awaits the request body
\* (await c.req.json()); other requests run until the body is there.  The
\* last guard keeps the inserts under way within the ids the model has
AwaitBody(op, id, b, h) ==
    /\ reqs < budget
    /\ Cardinality(reading) + Cardinality(pending) < MaxPending
    /\ (op = "create" /\ createTaskSchema(b).success)
         => nextId + Cardinality({c \in pending \cup reading :
                                    /\ c.req.op = "create" /\ ~c.done
                                    /\ c.req.body.kind # "malformed"})
              < MaxIds
    /\ reading' = reading \cup
          {Call(reqs + 1, Request(op, id, b, NoQuery, h), EmptyObj, 0,
                appClock)}
    /\ reqs' = reqs + 1
    /\ UNCHANGED <<store, nextId, appClock, dbClock, pending, budget, resp,
                   hist>>

\* POST /tasks from the arrival of its body up to its storage call: parse
\* and validate the body, issue the insert
CreateTask(p) ==
    /\ p \in reading
    /\ p.req.op = "create"
    /\ reading' = reading \ {p}
    /\ \E api \in ZodApis :
         LET Handle(v) ==
                 IF p.req.body.kind = "malformed"
                 THEN /\ resp' = Middleware(errorHandler(p.rid, p.req,
                                                         MalformedJson,
                                                         p.calls),
                                            p.start, appClock)
                      /\ UNCHANGED pending
                 ELSE IF ~v.success
                 THEN /\ resp' = Middleware(zValidatorReject(p.rid, p.req,
                                                             api),
                                            p.start, appClock)
                      /\ UNCHANGED pending
                 ELSE /\ pending' = Issue(Call(p.rid, p.req, v.data, 0,
                                               p.start))
                      /\ UNCHANGED resp
         IN  Handle(createTaskSchema(p.req.body))
    /\ UNCHANGED <<store, nextId, appClock, dbClock, reqs, budget, hist>>

\* DEFAULT gen_random_uuid(): a random version-4 value.  Nothing keeps it
\* from being a value returned before; it is one of those, or the next of
\* the distinct values the model has
gen_random_uuid ==
    {Uuid(k) : k \in 1..(IF nextId < MaxIds THEN nextId + 1 ELSE nextId)}

\* a table without its primary key
PrimaryKeyDropped(tbl, id) == FALSE

\* "id" uuid PRIMARY KEY: the insert of a row whose id a stored row has is
\* refused
PrimaryKey(tbl, id) == id \in DOMAIN tbl

\* the store executes INSERT ... RETURNING *: the id and both timestamps are
\* the column defaults; a text the column cannot hold, or an id that a
\* stored row has, is an error of the statement
ExecCreate(p, lost) ==
    /\ p \in pending /\ ~p.done
    /\ p.req.op = "create"
    /\ IF ~PgTextValid(p.data)
       THEN /\ pending' = Resolve(p, [NoOut EXCEPT !.err =
                   <<OtherError("invalid byte sequence for encoding UTF8")>>],
                   lost)
            /\ UNCHANGED <<store, hist, nextId>>
       ELSE \E id \in gen_random_uuid :
              IF PrimaryKey(store, id)
              THEN /\ pending' = Resolve(p, [NoOut EXCEPT !.err =
                          <<OtherError("duplicate key value violates unique constraint")>>],
                          lost)
                   /\ UNCHANGED <<store, hist, nextId>>
              ELSE LET row == InsertRow(id, p.data, dbClock)
                   IN  /\ store' = PutRow(store, id, row)
                       /\ hist' = PutRow(hist, id,
                             IF id \in DOMAIN hist
                             THEN [Created(row) EXCEPT
                                     !.changed = TRUE,
                                     !.gone = hist[id].gone,
                                     !.again = TRUE]
                             ELSE Created(row))
                       /\ pending' = Resolve(p, [NoOut EXCEPT
                                                   !.rows = <<row>>], lost)
                       /\ nextId' = IF id = Uuid(nextId + 1) THEN nextId + 1
                                    ELSE nextId
    /\ UNCHANGED <<appClock, dbClock, reading, reqs, budget, resp>>

\* the handler without its empty-body check
IsEmptyUpdateSkipped(data) == FALSE

\* Object.keys(body).length === 0
IsEmptyUpdate(data) == DOMAIN data = {}

\* PUT /tasks/:id from the arrival of its body up to its storage call:
\* parse and validate the body, refuse an empty one, read the clock and issue
\* the UPDATE
BeginUpdate(p) ==
    /\ p \in reading
    /\ p.req.op = "update"
    /\ reading' = reading \ {p}
    /\ \E api \in ZodApis :
         LET Handle(v) ==
                 IF p.req.body.kind = "malformed"
                 THEN /\ resp' = Middleware(errorHandler(p.rid, p.req,
                                                         MalformedJson,
                                                         p.calls),
                                            p.start, appClock)
                      /\ UNCHANGED pending
                 ELSE IF ~v.success
                 THEN /\ resp' = Middleware(zValidatorReject(p.rid, p.req,
                                                             api),
                                            p.start, appClock)
                      /\ UNCHANGED pending
                 ELSE IF IsEmptyUpdate(v.data)
                 THEN /\ resp' = Middleware(errorHandler(p.rid, p.req,
                             ApiError(400, "No fields to update",
                                      "EMPTY_UPDATE"),
                             p.calls), p.start, appClock)
                      /\ UNCHANGED pending
                 ELSE /\ pending' = Issue(Call(p.rid, p.req, v.data,
                                               appClock, p.start))
                      /\ UNCHANGED resp
         IN  Handle(updateTaskSchema(p.req.body))
    /\ UNCHANGED <<store, nextId, appClock, dbClock, reqs, budget, hist>>

\* the store executes UPDATE ... WHERE id = $1 RETURNING *; a text the
\* column cannot hold, or an id that is no uuid, is an error of the statement
ExecUpdate(p, lost) ==
    /\ p \in pending /\ ~p.done
    /\ p.req.op = "update"
    /\ IF ~PgTextValid(p.data)
       THEN /\ pending' = Resolve(p, [NoOut EXCEPT !.err =
                   <<OtherError("invalid byte sequence for encoding UTF8")>>],
                   lost)
            /\ UNCHANGED <<store, hist>>
       ELSE IF ~PgUuidValid(p.req.id)
       THEN /\ pending' = Resolve(p, [NoOut EXCEPT !.err =
                   <<OtherError("invalid input syntax for type uuid")>>],
                   lost)
            /\ UNCHANGED <<store, hist>>
       ELSE IF PgUuidIn(p.req.id) \notin DOMAIN store
       THEN /\ pending' = Resolve(p, NoOut, lost)
            /\ UNCHANGED <<store, hist>>
       ELSE LET key == PgUuidIn(p.req.id)
                row == UpdateRow(store[key], p.data, p.ts)
            IN  /\ store' = PutRow(store, key, row)
                /\ hist' = [hist EXCEPT ![key].changed = TRUE]
                /\ pending' = Resolve(p, [NoOut EXCEPT !.rows = <<row>>,
                                            !.before = <<store[key]>>], lost)
    /\ UNCHANGED <<reading, nextId, appClock, dbClock, reqs, budget, resp>>

\* DELETE /tasks/:id up to its storage call: nothing is validated
BeginDelete(id, h) ==
    /\ reqs < budget
    /\ Cardinality(pending) < MaxPending
    /\ pending' = Issue(Call(reqs + 1,
                             Request("delete", id, NoBody, NoQuery, h),
                             EmptyObj, 0, appClock))
    /\ reqs' = reqs + 1
    /\ UNCHANGED <<reading, store, nextId, appClock, dbClock, budget, resp,
                   hist>>

\* the store executes DELETE ... WHERE id = $1 RETURNING *
ExecDelete(p, lost) ==
    /\ p \in pending /\ ~p.done
    /\ p.req.op = "delete"
    /\ IF ~PgUuidValid(p.req.id)
       THEN /\ pending' = Resolve(p, [NoOut EXCEPT !.err =
                   <<OtherError("invalid input syntax for type uuid")>>],
                   lost)
            /\ UNCHANGED <<store, hist>>
       ELSE IF PgUuidIn(p.req.id) \notin DOMAIN store
       THEN /\ pending' = Resolve(p, NoOut, lost)
            /\ UNCHANGED <<store, hist>>
       ELSE LET key == PgUuidIn(p.req.id)
            IN  /\ store' = DeleteRow(store, key)
                /\ hist' = [hist EXCEPT ![key].changed = TRUE,
                                        ![key].deletedBy = p.rid,
                                        ![key].gone = 0,
                                        ![key].again = FALSE]
                /\ pending' = Resolve(p, [NoOut EXCEPT !.rows = <<store[key]>>,
                                            !.before = <<store[key]>>], lost)
    /\ UNCHANGED <<reading, nextId, appClock, dbClock, reqs, budget, resp>>

\* what the handler of `p` writes once its storage call has resolved: a
\* rejected call throws, a list answers its page with meta, a create answers
\* 201, and a get, update or delete answers the row or throws 404
Respond(p) ==
    IF p.out.err # <<>>
    THEN errorHandler(p.rid, p.req, p.out.err[1], p.calls)
    ELSE IF p.req.op = "list"
    THEN Success(p.rid, p.req, 200, p.out.rows, <<>>,
                 <<[limit |-> p.data.limit, offset |-> p.data.offset,
                    count |-> Len(p.out.rows)]>>, p.calls)
    ELSE IF p.req.op = "create"
    THEN Success(p.rid, p.req, 201, p.out.rows, <<>>, <<>>, p.calls)
    ELSE IF p.out.rows = <<>>
    THEN errorHandler(p.rid, p.req,
                      ApiError(404, "Task not found", "TASK_NOT_FOUND"),
                      p.calls)
    ELSE Success(p.rid, p.req, 200, p.out.rows, p.out.before, <<>>, p.calls)

\* a create or update handler that fetches the row with a second call once
\* its write has returned
AnswerAfterFetch(p) ==
    /\ p \in pending /\ p.done
    /\ IF p.req.op \in {"create", "update"} /\ p.out.rows # <<>>
            /\ p.calls = 1
       THEN /\ pending' = (pending \ {p})
                            \cup {[p EXCEPT !.calls = @ + 1, !.done = FALSE,
                                            !.out = NoOut, !.req.op = "get",
                                            !.req.id = p.out.rows[1].id]}
            /\ UNCHANGED <<resp, hist>>
       ELSE /\ resp' = Middleware(Respond(p), p.start, appClock)
            /\ pending' = pending \ {p}
            /\ hist' = IF p.req.op = "delete" /\ p.out.rows # <<>>
                       THEN [hist EXCEPT ![p.out.rows[1].id].gone = reqs]
                       ELSE hist
    /\ UNCHANGED <<reading, store, nextId, appClock, dbClock, reqs, budget>>

\* the handler resumes after its await and the response leaves the
\* middleware, timing() reading the clock again
Answer(p) ==
    /\ p \in pending /\ p.done
    /\ resp' = Middleware(Respond(p), p.start, appClock)
    /\ pending' = pending \ {p}
    /\ hist' = IF p.req.op = "delete" /\ p.out.rows # <<>>
               THEN [hist EXCEPT ![p.out.rows[1].id].gone = reqs]
               ELSE hist
    /\ UNCHANGED <<reading, store, nextId, appClock, dbClock, reqs, budget>>

\* time passes on the application's clock
TickApp ==
    /\ appClock < MaxClock
    /\ appClock' = appClock + 1
    /\ UNCHANGED <<reading, store, nextId, dbClock, pending, reqs, budget,
                   resp, hist>>

\* time passes on the database's clock
TickDb ==
    /\ dbClock < MaxClock
    /\ dbClock' = dbClock + 1
    /\ UNCHANGED <<reading, store, nextId, appClock, pending, reqs, budget,
                   resp, hist>>

\* the store executes the call of a suspended handler and its reply arrives
\* (lost = <<>>), or does not
Exec(p, lost) ==
    \/ ExecList(p, lost)
    \/ ExecGet(p, lost)
    \/ ExecCreate(p, lost)
    \/ ExecUpdate(p, lost)
    \/ ExecDelete(p, lost)

Next ==
    \/ \E q \in Queries : ListTasks(q, NoHeader, "GET")
    \/ \E id \in PathIds : GetTask(id, NoHeader, "GET")
    \/ \E b \in CreateBodies : AwaitBody("create", NoId, b, NoHeader)
    \/ \E p \in reading : CreateTask(p)
    \/ \E p \in reading : BeginUpdate(p)
    \/ \E id \in PathIds, b \in UpdateBodies :
          AwaitBody("update", id, b, NoHeader)
    \/ \E id \in PathIds : BeginDelete(id, NoHeader)
    \/ \E p \in pending : Exec(p, <<>>)
    \/ \E p \in pending : Answer(p)
    \/ TickApp
    \/ TickDb

\* the API from an empty store, under a few representative requests
Spec == Init /\ [][Next]_vars

(* ---------------- single requests over a wide range of inputs ---------- *)

\* number of requests sent to a store that already holds tasks
MaxWideRequests == 1

\* the requests that filled the store beforehand
Seeds == {<<>>, <<BodyB>>, <<BodyAHigh, BodyB>>}

SeedRow(seed, k) == InsertRow(Uuid(k), createTaskSchema(seed[k]).data, 0)

\* the state after the creates of a seed, each answered 201
InitWide ==
    \E seed \in Seeds :
        /\ store = [id \in {Uuid(k) : k \in 1..Len(seed)} |->
                      SeedRow(seed, CHOOSE k \in 1..Len(seed) : Uuid(k) = id)]
        /\ hist = [id \in {Uuid(k) : k \in 1..Len(seed)} |->
                     Created(SeedRow(seed,
                                     CHOOSE k \in 1..Len(seed) : Uuid(k) = id))]
        /\ nextId = Len(seed)
        /\ appClock = 0
        /\ dbClock = 0
        /\ reading = {}
        /\ pending = {}
        /\ reqs = Len(seed)
        /\ budget = Len(seed) + MaxWideRequests
        /\ resp = IF seed = <<>>
                  THEN NoResponse
                  ELSE Middleware(
                         Success(Len(seed),
                                 Request("create", NoId, seed[Len(seed)],
                                         NoQuery, NoHeader),
                                 201, <<SeedRow(seed, Len(seed))>>, <<>>, <<>>,
                                 1),
                         0, 0)

NextWide ==
    \/ \E q \in AllQueries : ListTasks(q, NoHeader, "GET")
    \/ \E id \in AllPathIds : GetTask(id, NoHeader, "GET")
    \/ \E b \in AllCreateBodies : AwaitBody("create", NoId, b, NoHeader)
    \/ \E id \in PathIds \cup OtherForms \cup {NotAUuid}, b \in AllUpdateBodies :
          AwaitBody("update", id, b, NoHeader)
    \/ \E p \in reading : CreateTask(p)
    \/ \E p \in reading : BeginUpdate(p)
    \/ \E id \in AllPathIds : BeginDelete(id, NoHeader)
    \/ \E p \in pending : Exec(p, <<>>)
    \/ \E p \in pending : Answer(p)
    \/ TickApp
    \/ TickDb

\* one more request, of any shape, to a store that already holds tasks
SpecWide == InitWide /\ [][NextWide]_vars

(* --------------------- the whole application ---------------------------- *)

HealthPath == <<"h", "e", "a", "l", "t", "h">>

\* the route a method and a path below /api select: the health check, the
\* five task routes, or none.  A HEAD request is routed as the GET of its
\* path; a path parameter is a segment that is not empty
Route(method, path) ==
    LET m == IF method = "HEAD" THEN "GET" ELSE method
        withId == Len(path) = 2 /\ path[1] = Tasks /\ path[2] # <<>>
    IN  CASE m = "GET" /\ path = <<HealthPath>> -> "health"
          [] m = "GET" /\ path = <<Tasks>> -> "list"
          [] m = "POST" /\ path = <<Tasks>> -> "create"
          [] m = "GET" /\ withId -> "get"
          [] m = "PUT" /\ withId -> "update"
          [] m = "DELETE" /\ withId -> "delete"
          [] OTHER -> "none"

\* a request outside the task routes
OtherRequest(op, method, path, h) ==
    [op |-> op, id |-> NoId, body |-> NoBody, query |-> NoQuery,
     xRequestId |-> h, method |-> method, path |-> path]

\* the framework's own fallback, c.text("404 Not Found", 404)
notFoundDefault(n, req) ==
    [n |-> n, req |-> req, status |-> 404, via |-> "notFound",
     code |-> "", message |-> "404 Not Found", data |-> <<>>,
     before |-> <<>>, meta |-> <<>>, calls |-> 0, thrown |-> <<>>,
     headers |-> NoHeaders, hasBody |-> TRUE]

\* app.notFound: c.json({success: false, error: {message, code}}, 404)
notFound(n, req) ==
    [n |-> n, req |-> req, status |-> 404, via |-> "notFound",
     code |-> "NOT_FOUND", message |-> "Not Found", data |-> <<>>,
     before |-> <<>>, meta |-> <<>>, calls |-> 0, thrown |-> <<>>,
     headers |-> NoHeaders, hasBody |-> TRUE]

\* cors() on an OPTIONS request: new Response(null, {status: 204}), next()
\* is not called
corsPreflight(n, req) ==
    [n |-> n, req |-> req, status |-> 204, via |-> "cors",
     code |-> "", message |-> "", data |-> <<>>, before |-> <<>>,
     meta |-> <<>>, calls |-> 0, thrown |-> <<>>, headers |-> NoHeaders,
     hasBody |-> FALSE]

\* GET /health (a HEAD is served by the same handler)
Health(h, m) ==
    /\ reqs < budget
    /\ resp' = Middleware(
                 Success(reqs + 1,
                         OtherRequest("health", m, <<HealthPath>>, h), 200,
                         <<[status |-> "healthy", timestamp |-> appClock,
                            runtime |-> "nodejs-fluid"]>>, <<>>, <<>>, 0),
                 appClock, appClock)
    /\ reqs' = reqs + 1
    /\ UNCHANGED <<reading, store, nextId, appClock, dbClock, pending,
                   budget, hist>>

\* a request that no route matches runs the middleware and ends in
\* app.notFound
Unmatched(method, path, h) ==
    /\ reqs < budget
    /\ method # "OPTIONS"
    /\ Route(method, path) = "none"
    /\ resp' = Middleware(notFound(reqs + 1,
                                   OtherRequest("unmatched", method, path, h)),
                          appClock, appClock)
    /\ reqs' = reqs + 1
    /\ UNCHANGED <<reading, store, nextId, appClock, dbClock, pending,
                   budget, hist>>

\* an OPTIONS request, to any path, is answered by cors() with a Response of
\* its own that takes the headers of c.res.  timing() sets its headers on
\* that response afterwards.  Whether the header requestId() set before any
\* response existed is among those of c.res depends on the release of the
\* framework, which the sources do not pin (kept)
Preflight(path, h) ==
    /\ reqs < budget
    /\ \E kept \in BOOLEAN :
         resp' = [Middleware(corsPreflight(reqs + 1,
                                           OtherRequest("preflight", "OPTIONS",
                                                        path, h)),
                             appClock, appClock)
                    EXCEPT !.headers.xRequestId = IF kept THEN @ ELSE <<>>]
    /\ reqs' = reqs + 1
    /\ UNCHANGED <<reading, store, nextId, appClock, dbClock, pending,
                   budget, hist>>

\* messages of the errors a storage call can reject with
StorageErrors ==
    { "fetch failed", "password authentication failed for user" }

\* a handler that retries: the rejection is caught and the call is issued
\* again
ExecFailsRetried(p, e) ==
    /\ p \in pending /\ ~p.done
    /\ p.calls < 2
    /\ pending' = (pending \ {p}) \cup {[p EXCEPT !.calls = @ + 1]}
    /\ UNCHANGED <<reading, store, nextId, appClock, dbClock, reqs, budget,
                   resp, hist>>

\* the awaited storage call of a suspended handler rejects: the store is
\* unreachable or refuses the connection and the statement is not executed,
\* or the statement is executed and the reply of the store is lost on its
\* way (the driver sends each statement as one HTTP request, which commits
\* on its own)
ExecFails(p, e) ==
    \/ /\ p \in pending /\ ~p.done
       /\ pending' = Resolve(p, NoOut, <<e>>)
       /\ UNCHANGED <<reading, store, nextId, appClock, dbClock, reqs,
                      budget, resp, hist>>
    \/ Exec(p, <<e>>)

\* a correlation id a client sends
ClientRequestId == <<"r", "-", "1">>

\* the inbound X-Request-Id: absent, empty, or a value
InboundHeaders == {NoHeader, <<<<>>>>, <<ClientRequestId>>}

Methods == {"GET", "HEAD", "POST", "PUT", "DELETE", "PATCH"}

\* /tasks, /tasks/<id>, /tasks/ (an empty last segment), /health, /nope
Paths == {<<Tasks>>, <<Tasks, MissingId>>, <<Tasks, <<>>>>, <<HealthPath>>,
          <<<<"n", "o", "p", "e">>>>}

AppQueries == {NoQuery, "limit" :> <<"0">>}

AppCreateBodies == {BodyA, ObjBody(EmptyObj), MalformedBody}

AppUpdateBodies ==
    {ObjBody("status" :> JStr(Done)), ObjBody(EmptyObj), MalformedBody,
     ObjBody("status" :> JStr(Bogus))}

\* the ids and headers of the requests that reach the store or no route
AppStoredIds == {Uuid(1), MissingId, NotAUuid}

AppPendingHeaders == {NoHeader, <<ClientRequestId>>}

NextApp ==
    \/ \E m \in Methods, q \in AppQueries, h \in InboundHeaders :
          Route(m, <<Tasks>>) = "list" /\ ListTasks(q, h, m)
    \/ \E m \in Methods, id \in PathIds \cup {V1Id, NotAUuid},
          h \in InboundHeaders :
          Route(m, <<Tasks, id>>) = "get" /\ GetTask(id, h, m)
    \/ \E b \in AppCreateBodies, h \in InboundHeaders :
          AwaitBody("create", NoId, b, h)
    \/ \E id \in AppStoredIds, b \in AppUpdateBodies,
             h \in AppPendingHeaders :
          AwaitBody("update", id, b, h)
    \/ \E p \in reading : CreateTask(p)
    \/ \E p \in reading : BeginUpdate(p)
    \/ \E id \in AppStoredIds, h \in AppPendingHeaders : BeginDelete(id, h)
    \/ \E p \in pending : Exec(p, <<>>)
    \/ \E p \in pending, e \in StorageErrors : ExecFails(p, e)
    \/ \E p \in pending : Answer(p)
    \/ \E m \in Methods, h \in InboundHeaders :
          Route(m, <<HealthPath>>) = "health" /\ Health(h, m)
    \/ \E m \in Methods, path \in Paths, h \in AppPendingHeaders :
          Unmatched(m, path, h)
    \/ \E path \in Paths, h \in InboundHeaders : Preflight(path, h)
    \/ TickApp
    \/ TickDb

\* every kind of request the application answers, the middleware included,
\* over a store that holds tasks and can fail
SpecApp == InitWide /\ [][NextApp]_vars

(* --------------------- concurrent requests on stored tasks -------------- *)

\* number of requests sent concurrently to a store that already holds tasks
MaxRaceRequests == 2

\* the ids the clients were given in the responses to their creates
RaceIds == {Uuid(k) : k \in 1..nextId}

InitRace ==
    \E seed \in {<<BodyB>>} :
        /\ store = [id \in {Uuid(k) : k \in 1..Len(seed)} |->
                      SeedRow(seed, CHOOSE k \in 1..Len(seed) : Uuid(k) = id)]
        /\ hist = [id \in {Uuid(k) : k \in 1..Len(seed)} |->
                     Created(SeedRow(seed,
                                     CHOOSE k \in 1..Len(seed) : Uuid(k) = id))]
        /\ nextId = Len(seed)
        /\ appClock = 0
        /\ dbClock = 0
        /\ reading = {}
        /\ pending = {}
        /\ reqs = Len(seed)
        /\ budget = Len(seed) + MaxRaceRequests
        /\ resp = Middleware(
                     Success(Len(seed),
                             Request("create", NoId, seed[Len(seed)],
                                     NoQuery, NoHeader),
                             201, <<SeedRow(seed, Len(seed))>>, <<>>, <<>>,
                             1),
                     0, 0)

NextRace ==
    \/ \E q \in Queries : ListTasks(q, NoHeader, "GET")
    \/ \E id \in PathIds : GetTask(id, NoHeader, "GET")
    \/ \E b \in CreateBodies : AwaitBody("create", NoId, b, NoHeader)
    \/ \E p \in reading : CreateTask(p)
    \/ \E p \in reading : BeginUpdate(p)
    \/ \E id \in RaceIds,
          b \in UpdateBodies \cup {ObjBody("status" :> JStr(InProgress))} :
          AwaitBody("update", id, b, NoHeader)
    \/ \E id \in RaceIds : BeginDelete(id, NoHeader)
    \/ \E p \in pending : Exec(p, <<>>)
    \/ \E p \in pending : Answer(p)
    \/ TickApp
    \/ TickDb

\* requests that overlap in time, sent to a store that already holds tasks
SpecRace == InitRace /\ [][NextRace]_vars

(* ------------------------ requests after a delete ---------------------- *)

\* number of requests sent after a task was created and deleted
MaxLaterRequests == 3

\* the state after a create and the delete of the created task, each
\* answered when the next was sent
InitGone ==
    /\ store = EmptyObj
    /\ hist = (Uuid(1) :> [Created(SeedRow(<<BodyB>>, 1)) EXCEPT
                             !.changed = TRUE, !.deletedBy = 2, !.gone = 2])
    /\ nextId = 1
    /\ appClock = 0
    /\ dbClock = 0
    /\ reading = {}
    /\ pending = {}
    /\ reqs = 2
    /\ budget = 2 + MaxLaterRequests
    /\ resp = Middleware(
                 Success(2, Request("delete", Uuid(1), NoBody, NoQuery,
                                    NoHeader),
                         200, <<SeedRow(<<BodyB>>, 1)>>,
                         <<SeedRow(<<BodyB>>, 1)>>, <<>>, 1),
                 0, 0)

NextGone ==
    \/ ListTasks(NoQuery, NoHeader, "GET")
    \/ \E id \in RaceIds : GetTask(id, NoHeader, "GET")
    \/ AwaitBody("create", NoId, BodyA, NoHeader)
    \/ \E p \in reading : CreateTask(p)
    \/ \E p \in reading : BeginUpdate(p)
    \/ \E id \in RaceIds :
          AwaitBody("update", id, ObjBody("status" :> JStr(Done)), NoHeader)
    \/ \E id \in RaceIds : BeginDelete(id, NoHeader)
    \/ \E p \in pending : Exec(p, <<>>)
    \/ \E p \in pending : Answer(p)
    \/ TickApp
    \/ TickDb

\* what clients send once a task was deleted, to the ids they were given,
\* the deleted one included
SpecGone == InitGone /\ [][NextGone]_vars

(* ----------------------- reads of an unchanged store -------------------- *)

\* number of reads sent to a store that holds tasks and is not written to
MaxReadRequests == 2

InitRead ==
    \E seed \in Seeds \ {<<>>} :
        /\ store = [id \in {Uuid(k) : k \in 1..Len(seed)} |->
                      SeedRow(seed, CHOOSE k \in 1..Len(seed) : Uuid(k) = id)]
        /\ hist = [id \in {Uuid(k) : k \in 1..Len(seed)} |->
                     Created(SeedRow(seed,
                                     CHOOSE k \in 1..Len(seed) : Uuid(k) = id))]
        /\ nextId = Len(seed)
        /\ appClock = 0
        /\ dbClock = 0
        /\ reading = {}
        /\ pending = {}
        /\ reqs = Len(seed)
        /\ budget = Len(seed) + MaxReadRequests
        /\ resp = Middleware(
                     Success(Len(seed),
                             Request("create", NoId, seed[Len(seed)],
                                     NoQuery, NoHeader),
                             201, <<SeedRow(seed, Len(seed))>>, <<>>, <<>>,
                             1),
                     0, 0)

NextRead ==
    \/ \E q \in Queries \cup {"limit" :> <<"1">>, "status" :> Done} :
          ListTasks(q, NoHeader, "GET")
    \/ \E id \in PathIds : GetTask(id, NoHeader, "GET")
    \/ \E p \in pending : Exec(p, <<>>)
    \/ \E p \in pending : Answer(p)
    \/ TickApp
    \/ TickDb

\* lists and gets, one after the other, of a store nobody writes to
SpecRead == InitRead /\ [][NextRead]_vars

(* ------------------------- properties: helpers ------------------------- *)

\* two texts spell the same identifier
SameId(a, b) ==
    Len(a) = Len(b) /\ \A i \in 1..Len(a) : ToLowerChar(a[i]) = ToLowerChar(b[i])

\* the stored tasks a path id names
Named(tbl, id) == {k \in DOMAIN tbl : SameId(k, id)}

\* the response is the answer to a request of kind `op`
Answered(r, op) == r.n > 0 /\ r.req.op = op

NotFound(r) == r.status = 404 /\ r.code = "TASK_NOT_FOUND"

\* the responses a step decides: the one it writes without a storage call,
\* and the one a handler is bound to write now that its storage call has
\* resolved
Outcomes ==
    {r \in {resp'} : r.n # resp.n /\ r.calls = 0}
      \cup {Respond(p) : p \in {x \in pending' \ pending : x.done}}

\* the step answers the request whose storage call had resolved to p.out
AnswerOf(p) == p \in pending \ pending' /\ p.done /\ resp'.n = p.rid

\* the query's offset is beyond the integers the model checker counts with
WideOffset(q) == Has(q, "offset") /\ StringToNumber(q["offset"]).wide

(* ------------------------------- C1 ------------------------------------ *)

\* C1: delete is terminal.  Once a DeleteTask of an id was answered 200,
\* every GetTask and DeleteTask of that id received from then on is answered
\* 404 TASK_NOT_FOUND, whatever was created, updated or listed in between.
\* (A request received while the delete was under way is not a later one.)
C1_DeleteIsTerminal ==
    \A k \in DOMAIN hist :
        ( /\ hist[k].gone # 0
          /\ Answered(resp, "get") \/ Answered(resp, "delete")
          /\ SameId(k, resp.req.id)
          /\ resp.n > hist[k].gone )
        => NotFound(resp)

\* C1 as amended: the same for as long as the store has not assigned the id
\* of the deleted task to a task created since.
C1_DeleteIsTerminalUntilIdAssignedAgain ==
    \A k \in DOMAIN hist :
        ( /\ hist[k].gone # 0
          /\ ~hist[k].again
          /\ Answered(resp, "get") \/ Answered(resp, "delete")
          /\ SameId(k, resp.req.id)
          /\ resp.n > hist[k].gone )
        => NotFound(resp)

\* a GetTask of a deleted task was answered 404 as the third request after
\* the delete's answer, a task created in between being stored under another
\* id
C1_Witness ==
    /\ Answered(resp, "get")
    /\ NotFound(resp)
    /\ pending = {} /\ reading = {}
    /\ store # EmptyObj
    /\ \E k \in DOMAIN hist :
          /\ hist[k].gone # 0 /\ ~hist[k].again
          /\ resp.n = hist[k].gone + 3
          /\ SameId(k, resp.req.id)

(* ------------------------------- C2 ------------------------------------ *)

\* C2: a successful UpdateTask changes only the fields its body names, and
\* updatedAt.  id, createdAt and every one of title, description, status and
\* priority that the body does not name are the same in the returned row and
\* in the stored row as in the row before; an absent status or priority is
\* not reset to its default.
C2_UpdateFrame ==
    (Answered(resp, "update") /\ resp.status = 200) =>
        LET old == resp.before[1]
            new == resp.data[1]
            named == DOMAIN resp.req.body.f
        IN  /\ Len(resp.before) = 1 /\ Len(resp.data) = 1
            /\ new.id = old.id
            /\ new.createdAt = old.createdAt
            /\ \A f \in BodyKeys \ named : new[f] = old[f]
            /\ new.id \in DOMAIN store /\ store[new.id] = new

\* an update that names neither status nor description succeeded on a task
\* whose status and description were not the defaults
C2_Witness ==
    /\ Answered(resp, "update") /\ resp.status = 200
    /\ DOMAIN resp.req.body.f \cap {"status", "description"} = {}
    /\ resp.before[1].status = Done /\ resp.data[1].status = Done
    /\ resp.before[1].description = JStr(TextD)
    /\ resp.data[1].priority # resp.before[1].priority

(* ------------------------------- C3 ------------------------------------ *)

\* C3: every successful UpdateTask leaves the task's stored updatedAt
\* strictly greater than it was just before that update was committed, in
\* every order in which updates read the clock and commit.
C3_UpdatedAtStrictlyIncreases ==
    [][ \A r \in Outcomes :
          (Answered(r, "update") /\ r.status = 200)
          => \A k \in Named(store, r.req.id) :
                k \in DOMAIN store' /\ store'[k].updatedAt > store[k].updatedAt
      ]_vars

(* ------------------------------- C4 ------------------------------------ *)

\* the body is an object without any of title, description, status, priority
NoRecognizedKey(b) == b.kind = "object" /\ DOMAIN b.f \cap BodyKeys = {}

\* C4: an UpdateTask whose body has no recognised key is answered 400
\* EMPTY_UPDATE, whether or not the id names a stored task; it issues no
\* storage call and leaves every stored task unchanged.
C4_EmptyUpdateRejected ==
    [][ \A r \in Outcomes :
          (Answered(r, "update") /\ NoRecognizedKey(r.req.body))
          => /\ r.status = 400
             /\ r.code = "EMPTY_UPDATE"
             /\ r.calls = 0
             /\ pending' = pending
             /\ store' = store
      ]_vars

\* a body holding only unrecognised keys, sent for a stored task, was refused
C4_Witness ==
    /\ Answered(resp, "update")
    /\ resp.status = 400 /\ resp.code = "EMPTY_UPDATE"
    /\ DOMAIN resp.req.body.f # {}
    /\ NoRecognizedKey(resp.req.body)
    /\ Named(store, resp.req.id) # {}

(* ------------------------------- C5 ------------------------------------ *)

\* the row satisfies the filter the query gives for column f, if any
Satisfies(row, q, f) == Has(q, f) => row[f] = q[f]

\* C5: ListTasks filters by conjunction.  Every returned task matches every
\* filter that is present; and without any filter (default paging, a store
\* smaller than the default limit) every stored task is returned.
C5_FilterConjunction ==
    (Answered(resp, "list") /\ resp.status = 200) =>
        LET q == resp.req.query
        IN  /\ \A i \in 1..Len(resp.data) :
                  /\ Satisfies(resp.data[i], q, "status")
                  /\ Satisfies(resp.data[i], q, "priority")
            /\ (DOMAIN q = {} /\ Cardinality(Rows) <= LimitDefault)
                  => {resp.data[i] : i \in 1..Len(resp.data)} = Rows

\* a list with both filters returned a task and left out a stored task that
\* matches exactly one of the two
C5_Witness ==
    /\ Answered(resp, "list") /\ resp.status = 200
    /\ Has(resp.req.query, "status") /\ Has(resp.req.query, "priority")
    /\ Len(resp.data) >= 1
    /\ \E r \in Rows :
          /\ Satisfies(r, resp.req.query, "status")
               # Satisfies(r, resp.req.query, "priority")
          /\ \A i \in 1..Len(resp.data) : resp.data[i] # r

(* ------------------------------- C6 ------------------------------------ *)

\* the text denotes a number at all (the empty and the blank text do not)
NumberText(s) == Trim(s) # <<>> /\ StringToNumber(s).kind # "nan"

\* the text is no integer of lo..hi; hi < lo stands for no upper end
NotIntegerIn(s, lo, hi) ==
    LET n == StringToNumber(s)
    IN  \/ ~NumberText(s)
        \/ n.kind # "int"
        \/ IF n.wide THEN n.val.neg \/ hi >= lo
           ELSE n.val < lo \/ (hi >= lo /\ n.val > hi)

\* C6: pagination bounds.  A ListTasks whose limit is outside 1..100, whose
\* offset is below 0, or whose limit or offset is no integer or no number is
\* answered 400 without a storage call; an absent limit is 20 and an absent
\* offset is 0; and a 200 answer holds at most limit items.
C6_PaginationBounds ==
    Answered(resp, "list") =>
        LET q == resp.req.query
        IN  /\ ( \/ Has(q, "limit") /\ NotIntegerIn(q["limit"], 1, 100)
                 \/ Has(q, "offset") /\ NotIntegerIn(q["offset"], 0, 0 - 1) )
                 => resp.status = 400 /\ resp.calls = 0
            /\ resp.status = 200 =>
                 /\ ~Has(q, "limit") => resp.meta[1].limit = 20
                 /\ ~Has(q, "offset") => resp.meta[1].offset = 0
                 /\ Len(resp.data) <= resp.meta[1].limit

(* ------------------------------- C7 ------------------------------------ *)

\* C7: create/get round trip.  If CreateTask answered 201 with row r and no
\* update or delete of r.id was committed since, GetTask(r.id) is answered
\* 200 with a row equal to r in every field.
C7_CreateGetRoundTrip ==
    \A k \in DOMAIN hist :
        (Answered(resp, "get") /\ SameId(k, resp.req.id) /\ ~hist[k].changed)
        => resp.status = 200 /\ resp.data = <<hist[k].created>>

\* a GetTask of an unchanged task answered its row while another task, with
\* other field values, was stored too
C7_Witness ==
    /\ Answered(resp, "get") /\ resp.status = 200
    /\ \E k \in DOMAIN hist :
          /\ SameId(k, resp.req.id) /\ ~hist[k].changed
          /\ resp.data = <<hist[k].created>>
    /\ \E r \in Rows : r.id # resp.data[1].id /\ r.title # resp.data[1].title

(* ------------------------------- C8 ------------------------------------ *)

IsHexChar(c) == ToLowerChar(c) \in DigitChars \cup LowerHex

\* the 8-4-4-4-12 hexadecimal layout with version nibble 4 and variant
\* nibble 8, 9, a or b
CanonicalV4(id) ==
    /\ Len(id) = 8 + 1 + 4 + 1 + 4 + 1 + 4 + 1 + 12
    /\ \A i \in 1..Len(id) :
          IF i \in {9, 14, 19, 24} THEN id[i] = "-" ELSE IsHexChar(id[i])
    /\ id[15] = "4"
    /\ ToLowerChar(id[20]) \in {"8", "9", "a", "b"}

\* C8: GetTask outcome.  An id that is not in the version-4 layout is
\* answered 400 "Invalid task ID format" INVALID_ID without a storage call;
\* otherwise an id no stored task has is answered 404 TASK_NOT_FOUND;
\* otherwise the answer is 200 with the task's current row.  GetTask never
\* changes the store.
C8_GetTaskOutcome ==
    [][ /\ \A r \in Outcomes :
             Answered(r, "get") =>
               IF ~CanonicalV4(r.req.id)
               THEN /\ r.status = 400
                    /\ r.message = "Invalid task ID format"
                    /\ r.code = "INVALID_ID"
                    /\ r.calls = 0
               ELSE IF Named(store, r.req.id) = {}
               THEN NotFound(r)
               ELSE /\ r.status = 200
                    /\ \E k \in Named(store, r.req.id) : r.data = <<store[k]>>
        /\ \A p \in pending :
             (AnswerOf(p) /\ p.req.op = "get")
             => resp'.data = p.out.rows /\ resp'.status = Respond(p).status
        /\ ( \/ resp'.n # resp.n /\ resp'.req.op = "get"
             \/ \E p \in pending \cup pending' :
                   p.req.op = "get" /\ (p \notin pending \/ p \notin pending') )
           => store' = store
      ]_vars

\* a well-formed identifier of another version was refused as INVALID_ID
C8_Witness ==
    /\ Answered(resp, "get")
    /\ resp.req.id = V1Id
    /\ resp.status = 400 /\ resp.code = "INVALID_ID" /\ resp.calls = 0

(* ------------------------------- C9 ------------------------------------ *)

\* C9: an UpdateTask with a valid, non-empty body and a DeleteTask, sent for
\* any id that names no stored task, are answered 404 TASK_NOT_FOUND, never
\* 500, and leave the store as it was (no row is created).
C9_AbsentIdNotFound ==
    [][ \A r \in Outcomes :
          ( /\ \/ Answered(r, "delete")
               \/ /\ Answered(r, "update")
                  /\ updateTaskSchema(r.req.body).success
                  /\ ~NoRecognizedKey(r.req.body)
            /\ Named(store, r.req.id) = {} )
          => NotFound(r) /\ store' = store
      ]_vars

(* ------------------------------- C10 ----------------------------------- *)

\* C10: a CreateTask whose body is no valid create payload (title missing,
\* not a string or of a wrong length, status or priority outside its set, a
\* description of a wrong type, a body that is no well-formed object) is
\* answered 400; no storage call is made and no task is created.
C10_CreateRejectsBadInput ==
    [][ \A r \in Outcomes :
          (Answered(r, "create") /\ ~createTaskSchema(r.req.body).success)
          => /\ r.status = 400
             /\ r.calls = 0
             /\ store' = store
             /\ nextId' = nextId
      ]_vars

(* ------------------------------- C11 ----------------------------------- *)

\* the length of a text without its surrounding whitespace
TrimmedLen(s) == Len(Trim(s))

\* a JSON object that is a create payload apart from its title
CreateFieldsValid(f) ==
    /\ Has(f, "description") => f["description"].t \in {"str", "null"}
    /\ Has(f, "status") =>
          f["status"].t = "str" /\ f["status"].v \in taskStatusEnum
    /\ Has(f, "priority") =>
          f["priority"].t = "str" /\ f["priority"].v \in taskPriorityEnum

\* a create payload whose title has 1..256 characters, counted as sent and
\* counted without surrounding whitespace alike
ValidCreatePayload(b) ==
    /\ b.kind = "object"
    /\ Has(b.f, "title") /\ b.f["title"].t = "str"
    /\ Len(b.f["title"].v) \in 1..256
    /\ TrimmedLen(b.f["title"].v) \in 1..256
    /\ CreateFieldsValid(b.f)

\* C11: CreateTask applies defaults.  A valid create payload is answered
\* 201 with the created row: status "todo", priority "medium" and
\* description null where the key is absent, the supplied values otherwise,
\* an id assigned by the server, and createdAt equal to updatedAt.
C11_CreateAppliesDefaults ==
    [][ \A o \in Outcomes :
          (Answered(o, "create") /\ ValidCreatePayload(o.req.body))
          => /\ o.status = 201
             /\ Len(o.data) = 1
             /\ LET r == o.data[1]
                    f == o.req.body.f
                IN  /\ r.title = f["title"].v
                    /\ r.status = IF Has(f, "status") THEN f["status"].v
                                  ELSE <<"t", "o", "d", "o">>
                    /\ r.priority = IF Has(f, "priority") THEN f["priority"].v
                                    ELSE <<"m", "e", "d", "i", "u", "m">>
                    /\ r.description = IF Has(f, "description")
                                       THEN f["description"] ELSE JNull
                    /\ CanonicalV4(r.id)
                    /\ r.id \notin DOMAIN store
                    /\ Has(f, "id") => r.id # f["id"].v
                    /\ r.createdAt = r.updatedAt
                    /\ r.id \in DOMAIN store' /\ store'[r.id] = r
      ]_vars

(* ------------------------------- C12 ----------------------------------- *)

\* the request carries a title that is a string, in a body that is valid
\* apart from it
TitledRequest(r) ==
    /\ r.req.op \in {"create", "update"}
    /\ r.req.body.kind = "object"
    /\ Has(r.req.body.f, "title") /\ r.req.body.f["title"].t = "str"
    /\ CreateFieldsValid(r.req.body.f)

\* C12: title validation is on trimmed length.  CreateTask, and UpdateTask
\* when a title is present, accept the title exactly when its length without
\* surrounding whitespace is in 1..256 and answer 400 otherwise; a title of
\* whitespace only is rejected.
C12_TitleTrimmedLength ==
    [][ \A r \in Outcomes :
          TitledRequest(r)
          => ( r.status = 400
                 <=> TrimmedLen(r.req.body.f["title"].v) \notin 1..256 )
      ]_vars

(* ------------------------------- C13 ----------------------------------- *)

\* C13: uniform error envelope.  Every response with a status outside 2xx
\* has the body {success: false, error: {message, code}}, message and code
\* both present, written by the application's error translation (the global
\* error handler, the fallback handler for an unmatched route).
C13_UniformErrorEnvelope ==
    (resp.n > 0 /\ resp.status \notin 200..299)
    => /\ resp.message # ""
       /\ resp.code # ""
       /\ resp.via \in {"errorHandler", "notFound"}

(* ------------------------------- C14 ----------------------------------- *)

\* C14: no internal detail leaks.  When the error thrown while a request is
\* handled is no ApiError (a rejected storage call, a body that does not
\* parse), the response is 500 with exactly the body {success: false,
\* error: {message: "Internal Server Error", code: "INTERNAL_ERROR"}},
\* whatever the error's own message is.
C14_NoInternalDetailLeaks ==
    (resp.thrown # <<>> /\ ~resp.thrown[1].isApiError)
    => /\ resp.status = 500
       /\ resp.via = "errorHandler"
       /\ resp.hasBody
       /\ resp.message = "Internal Server Error"
       /\ resp.code = "INTERNAL_ERROR"
       /\ resp.data = <<>> /\ resp.meta = <<>>

\* C14 as amended: the same, the answer to a HEAD request being the status
\* 500 without any body.
C14_NoInternalDetailLeaksHeadWithoutBody ==
    (resp.thrown # <<>> /\ ~resp.thrown[1].isApiError)
    => /\ resp.status = 500
       /\ resp.via = "errorHandler"
       /\ resp.data = <<>> /\ resp.meta = <<>>
       /\ IF resp.req.method = "HEAD"
          THEN ~resp.hasBody /\ resp.message = "" /\ resp.code = ""
          ELSE /\ resp.hasBody
               /\ resp.message = "Internal Server Error"
               /\ resp.code = "INTERNAL_ERROR"

\* a storage call that was rejected with an authentication message was
\* answered with the generic body
C14_Witness ==
    /\ resp.thrown # <<>>
    /\ resp.thrown[1].message = "password authentication failed for user"
    /\ resp.req.op = "update"
    /\ resp.status = 500 /\ resp.message = "Internal Server Error"
    /\ resp.hasBody

(* ------------------------------- C15 ----------------------------------- *)

\* the routes of the HTTP surface, below the base path /api: GET /health,
\* GET and POST /tasks, GET, PUT and DELETE /tasks/{id}
InRouteTable(method, path) ==
    \/ method = "GET" /\ path = <<<<"h", "e", "a", "l", "t", "h">>>>
    \/ method \in {"GET", "POST"} /\ path = <<<<"t", "a", "s", "k", "s">>>>
    \/ /\ method \in {"GET", "PUT", "DELETE"}
       /\ Len(path) = 2 /\ path[1] = <<"t", "a", "s", "k", "s">>
       /\ Len(path[2]) > 0

UnmatchedAnswer(r) ==
    r.status = 404 /\ r.message = "Not Found" /\ r.code = "NOT_FOUND"
      /\ r.hasBody /\ r.calls = 0

\* C15: every request whose method and path match no route under /api, an
\* unsupported method on a /tasks path included, is answered 404 {success:
\* false, error: {message: "Not Found", code: "NOT_FOUND"}} with no storage
\* call and no change of the store.
C15_UnmatchedRouteNotFound ==
    [][ (resp'.n # resp.n /\ ~InRouteTable(resp'.req.method, resp'.req.path))
        => UnmatchedAnswer(resp') /\ store' = store /\ pending' = pending
      ]_vars

\* C15 as amended: a request whose method is neither OPTIONS nor HEAD and
\* that matches no route is answered 404 NOT_FOUND as stated; a HEAD request
\* is answered as the GET of its path is, without a body: by that route's
\* handler when the GET matches a route, and 404 with no storage call and no
\* change of the store when it matches none; an OPTIONS request is answered
\* 204 without a body by the CORS middleware, with no storage call and no
\* change of the store.
C15_NotFoundButHeadAndPreflight ==
    [][ resp'.n # resp.n =>
          /\ ( /\ resp'.req.method \notin {"OPTIONS", "HEAD"}
               /\ ~InRouteTable(resp'.req.method, resp'.req.path) )
             => UnmatchedAnswer(resp') /\ store' = store /\ pending' = pending
          /\ resp'.req.method = "HEAD"
             => /\ ~resp'.hasBody
                /\ IF InRouteTable("GET", resp'.req.path)
                   THEN resp'.req.op \in {"health", "list", "get"}
                   ELSE /\ resp'.status = 404 /\ resp'.via = "notFound"
                        /\ resp'.calls = 0
                        /\ store' = store /\ pending' = pending
          /\ resp'.req.method = "OPTIONS"
             => /\ resp'.status = 204 /\ resp'.via = "cors"
                /\ ~resp'.hasBody /\ resp'.calls = 0
                /\ store' = store /\ pending' = pending
      ]_vars

\* a GET of /tasks/ (an empty id) was answered NOT_FOUND while the store held
\* tasks
C15_Witness ==
    /\ resp.req.method = "GET" /\ resp.req.path = <<Tasks, <<>>>>
    /\ UnmatchedAnswer(resp)
    /\ store # EmptyObj

(* ------------------------------- C16 ----------------------------------- *)

EndsWithMs(s) ==
    Len(s) > 2 /\ s[Len(s) - 1] = "m" /\ s[Len(s)] = "s"

Validated(q, k, default) ==
    IF Has(q, k) THEN StringToNumber(q[k]).val ELSE default

\* C17: success envelope and status.  Every successful task operation is
\* answered {success: true, data}; CreateTask with 201, the others with 200;
\* only ListTasks adds meta, whose limit and offset are the validated ones
\* and whose count is the number of items of data.
C17_SuccessEnvelope ==
    ( /\ resp.n > 0
      /\ resp.req.op \in {"list", "get", "create", "update", "delete"}
      /\ resp.status \in 200..299 )
    => /\ resp.via = "handler"
       /\ resp.status = IF resp.req.op = "create" THEN 201 ELSE 200
       /\ IF resp.req.op = "list"
          THEN /\ Len(resp.meta) = 1
               /\ resp.meta[1].limit = Validated(resp.req.query, "limit", 20)
               /\ resp.meta[1].offset = Validated(resp.req.query, "offset", 0)
               /\ resp.meta[1].count = Len(resp.data)
          ELSE Len(resp.data) = 1 /\ resp.meta = <<>>

\* a list asked for the second page of one item and got it
C17_Witness ==
    /\ Answered(resp, "list") /\ resp.status = 200
    /\ Has(resp.req.query, "limit") /\ Has(resp.req.query, "offset")
    /\ ~WideOffset(resp.req.query)
    /\ resp.meta[1].offset = 1 /\ resp.meta[1].count = 1
    /\ Cardinality(DOMAIN store) = 2

(* ------------------------------- C18 ----------------------------------- *)

\* C18: in every reachable state every stored task has
\* updatedAt >= createdAt.
C18_UpdatedAtNotBeforeCreatedAt ==
    \A r \in Rows : r.updatedAt >= r.createdAt

(* ------------------------------- C19 ----------------------------------- *)

\* C19: id and createdAt are assigned by the server and never change.  A
\* stored task keeps the id and createdAt it was created with through every
\* operation; the id and createdAt of a created task are the store's, and no
\* id, createdAt or updatedAt key of a create or update body chooses or
\* changes them.
C19_IdAndCreatedAtImmutable ==
    [][ /\ \A k \in DOMAIN store' :
             /\ store'[k].id = k
             /\ store'[k].id = hist'[k].created.id
             /\ store'[k].createdAt = hist'[k].created.createdAt
        /\ \A k \in DOMAIN store \cap DOMAIN store' :
             /\ store'[k].id = store[k].id
             /\ store'[k].createdAt = store[k].createdAt
        /\ \A k \in DOMAIN store' \ DOMAIN store :
             /\ store'[k].createdAt = dbClock
             /\ \A r \in Outcomes :
                  Has(r.req.body.f, "id") => k # r.req.body.f["id"].v
      ]_vars

\* an update whose body names another id and a createdAt was answered 200
\* with the task's own id and createdAt
C19_Witness ==
    /\ Answered(resp, "update") /\ resp.status = 200
    /\ Has(resp.req.body.f, "id") /\ Has(resp.req.body.f, "createdAt")
    /\ resp.data[1].id # resp.req.body.f["id"].v
    /\ resp.data[1].id = resp.before[1].id
    /\ resp.data[1].createdAt = resp.before[1].createdAt
    /\ resp.data[1].status # resp.before[1].status

(* ------------------------------- C20 ----------------------------------- *)

\* C20: task ids are unique and never reused.  No two stored tasks share an
\* id, and the id a CreateTask assigns differs from every id assigned
\* before, the ids of tasks deleted since included.
C20_IdsUniqueNeverReused ==
    [][ /\ \A j, k \in DOMAIN store' :
             store'[j].id = store'[k].id => j = k
        /\ \A r \in Outcomes :
             (Answered(r, "create") /\ r.status = 201)
             => /\ r.data[1].id \notin DOMAIN hist
                /\ \A k \in DOMAIN store : store[k].id # r.data[1].id
      ]_vars

\* C20 as amended: no two stored tasks share an id.  The id of a CreateTask
\* answered 201 is the id of no task stored at that moment, the task is
\* added and every stored task stays as it was; an insert whose generated id
\* a stored task has is refused, answered 500, and changes nothing.
C20_StoredIdsUnique ==
    [][ /\ \A j, k \in DOMAIN store' :
             store'[j].id = store'[k].id => j = k
        /\ \A r \in Outcomes :
             /\ (Answered(r, "create") /\ r.status = 201)
                => /\ \A k \in DOMAIN store : store[k].id # r.data[1].id
                   /\ Cardinality(DOMAIN store')
                        = Cardinality(DOMAIN store) + 1
                   /\ \A k \in DOMAIN store :
                         k \in DOMAIN store' /\ store'[k] = store[k]
             /\ ( /\ Answered(r, "create")
                  /\ r.thrown # <<>>
                  /\ r.thrown[1].message
                       = "duplicate key value violates unique constraint" )
                => r.status = 500 /\ store' = store
      ]_vars

\* an insert was refused because the generated id was the id of the stored
\* task, which is stored as it was created
C20_Witness ==
    /\ Answered(resp, "create") /\ resp.status = 500
    /\ resp.thrown # <<>>
    /\ resp.thrown[1].message
         = "duplicate key value violates unique constraint"
    /\ \E k \in DOMAIN store : store[k] = hist[k].created

(* ------------------------------- C21 ----------------------------------- *)

\* the body names a status or a priority whose value is not one of the
\* enumerated ones
CarriesOtherEnumValue(b) ==
    /\ b.kind = "object"
    /\ \/ /\ Has(b.f, "status")
          /\ b.f["status"] \notin
               {JStr(<<"t", "o", "d", "o">>), JStr(<<"d", "o", "n", "e">>),
                JStr(<<"i", "n", "_", "p", "r", "o", "g", "r", "e", "s", "s">>)}
       \/ /\ Has(b.f, "priority")
          /\ b.f["priority"] \notin
               {JStr(<<"l", "o", "w">>), JStr(<<"h", "i", "g", "h">>),
                JStr(<<"m", "e", "d", "i", "u", "m">>)}

\* the stored tasks of a table hold enumerated values only
EnumValuesOnly(tbl) ==
    \A k \in DOMAIN tbl :
        /\ tbl[k].status \in
             {<<"t", "o", "d", "o">>, <<"d", "o", "n", "e">>,
              <<"i", "n", "_", "p", "r", "o", "g", "r", "e", "s", "s">>}
        /\ tbl[k].priority \in
             {<<"l", "o", "w">>, <<"h", "i", "g", "h">>,
              <<"m", "e", "d", "i", "u", "m">>}

\* C21: in every reachable state every stored task has a status of todo,
\* in_progress, done and a priority of low, medium, high; a CreateTask or
\* UpdateTask that carries another status or priority value is answered 400
\* without a storage call and changes nothing.
C21_EnumValues ==
    [][ /\ EnumValuesOnly(store) /\ EnumValuesOnly(store')
        /\ \A r \in Outcomes :
             ( /\ r.req.op \in {"create", "update"}
               /\ CarriesOtherEnumValue(r.req.body) )
             => /\ r.status = 400
                /\ r.calls = 0
                /\ store' = store
                /\ pending' = pending
                /\ nextId' = nextId
      ]_vars

\* an update to a status outside the set, sent for a stored task, was
\* refused and the task kept its status
C21_Witness ==
    /\ Answered(resp, "update") /\ resp.status = 400
    /\ CarriesOtherEnumValue(resp.req.body)
    /\ \E k \in Named(store, resp.req.id) : store[k].status = Done

(* ------------------------------- C22 ----------------------------------- *)

\* C22: mutation responses reflect exactly what was committed, in every
\* interleaving of concurrent requests on one id.  The row of a successful
\* CreateTask or UpdateTask is the stored row right after its commit; the row
\* of a successful DeleteTask is the stored row right before its commit; an
\* updated row holds the body's values and, in every other field, what the
\* mutations committed before it left.
C22_ResponseReflectsCommit ==
    [][ /\ \A o \in Outcomes :
             ( /\ o.req.op \in {"create", "update", "delete"}
               /\ o.status \in 200..299 )
             => /\ Len(o.data) = 1
                /\ LET r == o.data[1]
                       f == o.req.body.f
                   IN  /\ o.req.op \in {"create", "update"}
                            => r.id \in DOMAIN store' /\ store'[r.id] = r
                       /\ o.req.op = "update"
                            => /\ r.id \in DOMAIN store
                               /\ \A c \in {"title", "status", "priority"} :
                                     r[c] = IF Has(f, c) THEN f[c].v
                                            ELSE store[r.id][c]
                               /\ r.description =
                                    IF Has(f, "description")
                                    THEN f["description"]
                                    ELSE store[r.id].description
                       /\ o.req.op = "delete"
                            => /\ r.id \in DOMAIN store /\ store[r.id] = r
                               /\ r.id \notin DOMAIN store'
        /\ \A p \in pending :
             (AnswerOf(p) /\ p.req.op \in {"create", "update", "delete"})
             => /\ resp'.status = Respond(p).status
                /\ resp'.status \in 200..299 => resp'.data = p.out.rows
      ]_vars

\* of two overlapping updates of one task the one sent first committed last:
\* its answer shows the other's title and its own status
C22_Witness ==
    /\ Answered(resp, "update") /\ resp.status = 200
    /\ resp.n < reqs
    /\ pending = {}
    /\ DOMAIN resp.req.body.f = {"status"}
    /\ resp.before[1].title = TitleB /\ resp.before[1].priority = Low
    /\ resp.data[1].title = TitleB /\ resp.data[1].priority = Low
    /\ resp.data[1].status = InProgress
    /\ resp.before[1].status = Done

(* ------------------------------- C23 ----------------------------------- *)

\* C23: last committer wins.  An UpdateTask with a valid, non-empty body is
\* answered 200 whenever its task is stored at the moment it commits,
\* whatever other updates of the task are under way or were committed since
\* it was sent; after its commit every field it names holds its value and
\* every other field holds what the commits before it left.  So of two
\* concurrent updates of one field the later commit's value stays, and two
\* concurrent updates of disjoint fields both show in the final row.
C23_LastCommitterWins ==
    [][ \A r \in Outcomes :
          ( /\ Answered(r, "update")
            /\ updateTaskSchema(r.req.body).success
            /\ ~NoRecognizedKey(r.req.body)
            /\ Named(store, r.req.id) # {} )
          => /\ r.status = 200
             /\ \A k \in Named(store, r.req.id) :
                   LET f == r.req.body.f
                   IN  /\ k \in DOMAIN store'
                       /\ \A c \in {"title", "status", "priority"} :
                             store'[k][c] = IF Has(f, c) THEN f[c].v
                                            ELSE store[k][c]
                       /\ store'[k].description =
                            IF Has(f, "description") THEN f["description"]
                            ELSE store[k].description
      ]_vars

\* two overlapping updates of one task's status, to different values, were
\* both answered 200; the one sent first committed last and its value is the
\* stored one
C23_Witness ==
    /\ Answered(resp, "update") /\ resp.status = 200
    /\ resp.n < reqs
    /\ pending = {}
    /\ resp.req.body.f = ("status" :> JStr(Done))
    /\ resp.before[1].status = InProgress
    /\ \E k \in Named(store, resp.req.id) : store[k].status = Done
    /\ hist[resp.data[1].id].created.status = Done

(* ------------------------------- C24 ----------------------------------- *)

\* C24: every request makes at most one storage call.  ListTasks, GetTask,
\* CreateTask, UpdateTask and DeleteTask are answered after at most one call
\* to the store on every path, a request has at most one call under way and
\* none once it is answered, and the health check, a request that matches no
\* route and the CORS preflight are answered without any.
C24_AtMostOneStorageCall ==
    /\ \A p, q \in pending : p.rid = q.rid => p = q
    /\ \A p \in pending : p.rid # resp.n /\ p.calls <= 1
    /\ resp.n > 0 =>
          /\ resp.calls \in {0, 1}
          /\ ( \/ resp.req.op \in {"health", "preflight"}
               \/ ~InRouteTable(resp.req.method, resp.req.path) )
             => resp.calls = 0

\* C24 as amended: the same, a HEAD request counting as a request to the GET
\* route of its path: it is answered after the one call of the list or get
\* handler; the requests answered without a call are the health check, the
\* CORS preflight and those answered by the fallback for unmatched routes.
C24_AtMostOneStorageCallHeadAsGet ==
    /\ \A p, q \in pending : p.rid = q.rid => p = q
    /\ \A p \in pending : p.rid # resp.n /\ p.calls <= 1
    /\ resp.n > 0 =>
          /\ resp.calls \in {0, 1}
          /\ ( \/ resp.req.op \in {"health", "preflight"}
               \/ resp.via = "notFound"
               \/ /\ resp.req.method # "HEAD"
                  /\ ~InRouteTable(resp.req.method, resp.req.path) )
             => resp.calls = 0
          /\ (resp.req.method = "HEAD" /\ resp.calls = 1)
             => /\ resp.req.op \in {"list", "get"}
                /\ InRouteTable("GET", resp.req.path)

\* a HEAD of a stored task was answered 200 after the one select of the get
\* handler
C24_Witness ==
    /\ Answered(resp, "get") /\ resp.req.method = "HEAD"
    /\ resp.status = 200
    /\ resp.calls = 1
    /\ Named(store, resp.req.id) # {}

(* ------------------------------- C25 ----------------------------------- *)

\* C25: validation precedes storage.  A request answered 400 has issued no
\* storage call; and a request that reached the store carried input the store
\* accepts: its call does not end in an error of the store about the input,
\* so that client-supplied data never causes a 500.
C25_ValidationPrecedesStorage ==
    resp.n > 0 =>
        /\ resp.status = 400 => resp.calls = 0
        /\ resp.calls > 0 =>
              /\ resp.thrown = <<>> \/ resp.thrown[1].isApiError
              /\ resp.status # 500

(* ------------------------------- C26 ----------------------------------- *)

\* the storage call of the answered request was rejected
StorageCallFailed(r) ==
    r.n > 0 /\ r.calls > 0 /\ r.thrown # <<>> /\ ~r.thrown[1].isApiError

\* C26: no retries.  When the storage call of a request fails, the handler
\* takes no further step but the answer: the call is not issued again, the
\* answer is 500 after that one call, and no call of the request is under way
\* once it is answered; the store is as it was, so a failed POST has created
\* no task; and no request adds more than one task.
C26_NoRetries ==
    [][ /\ \A r \in Outcomes :
             StorageCallFailed(r)
             => /\ r.status = 500
                /\ r.calls = 1
                /\ store' = store
                /\ nextId' = nextId
        /\ \A p \in pending :
             (p.done /\ p.out.err # <<>>)
             => /\ \A x \in pending \cup pending' : x.rid = p.rid => x = p
                /\ p \notin pending' =>
                      /\ resp'.n = p.rid
                      /\ resp'.status = 500 /\ resp'.calls = 1
                      /\ store' = store
        /\ Cardinality(DOMAIN store' \ DOMAIN store) <= 1
        /\ nextId' <= nextId + 1
      ]_vars

\* C26 as amended: when the storage call of a request fails, the call is not
\* issued again (the number of calls the request has issued stays 1), the
\* only step left to the request is its answer, which is 500, and nothing
\* changes the store on behalf of the request after the failure.  The
\* statement of a request is executed at most once and adds at most one task,
\* so no request creates more than one; a POST whose call failed has created
\* no task or, when the statement was executed and its reply lost, one.
C26_NoRetriesCommitMayBeLost ==
    [][ /\ \A r \in Outcomes :
             StorageCallFailed(r)
             => /\ r.status = 500
                /\ r.calls = 1
                /\ Cardinality(DOMAIN store' \ DOMAIN store)
                     <= (IF r.req.op = "create" THEN 1 ELSE 0)
                /\ r.req.op = "create" =>
                      \A k \in DOMAIN store :
                         k \in DOMAIN store' /\ store'[k] = store[k]
        /\ \A p \in pending : \A x \in pending' :
             x.rid = p.rid => /\ x.calls = p.calls
                              /\ p.done => x = p
        /\ \A p \in pending :
             (p.done /\ p.out.err # <<>>)
             => /\ \A x \in pending \cup pending' : x.rid = p.rid => x = p
                /\ p \notin pending' =>
                      /\ resp'.n = p.rid
                      /\ resp'.status = 500 /\ resp'.calls = 1
                      /\ store' = store
        /\ Cardinality(DOMAIN store' \ DOMAIN store) <= 1
        /\ nextId' <= nextId + 1
      ]_vars

\* the only request sent to a store of one task, a create, was answered 500
\* after its insert was executed and the reply lost: its task is stored
C26_Witness ==
    /\ Answered(resp, "create")
    /\ StorageCallFailed(resp)
    /\ resp.thrown[1].message = "fetch failed"
    /\ resp.status = 500 /\ resp.calls = 1
    /\ resp.n = 2 /\ reqs = 2
    /\ Cardinality(DOMAIN store) = 2
    /\ \E k \in DOMAIN store : store[k].title = resp.req.body.f["title"].v

(* ------------------------------- C27 ----------------------------------- *)

\* two queries give the same filters
SameFilters(q1, q2) ==
    \A c \in {"status", "priority"} :
        /\ Has(q1, c) <=> Has(q2, c)
        /\ Has(q1, c) => q1[c] = q2[c]

\* the tasks of a list answer
Listed(r) == {r.data[i] : i \in 1..Len(r.data)}

\* C27: ListTasks uses a deterministic order.  Of two lists answered one
\* after the other with the same filters and no mutation committed between
\* them, those with the same limit and offset return the same tasks in the
\* same sequence, and the page that follows a page shares no task with it.
C27_DeterministicListOrder ==
    [][ ( /\ resp'.n # resp.n
          /\ Answered(resp, "list") /\ resp.status = 200
          /\ Answered(resp', "list") /\ resp'.status = 200
          /\ store' = store
          /\ SameFilters(resp.req.query, resp'.req.query)
          /\ resp'.meta[1].limit = resp.meta[1].limit )
        => /\ resp'.meta[1].offset = resp.meta[1].offset
                => resp'.data = resp.data
           /\ resp'.meta[1].offset = resp.meta[1].offset + resp.meta[1].limit
                => Listed(resp') \cap Listed(resp) = {}
      ]_vars

(* ------------------------------- C28 ----------------------------------- *)

\* C28: of two concurrent DeleteTask requests on one stored task, in every
\* interleaving, the one the store executes first is answered 200 with the
\* deleted row and the other 404 TASK_NOT_FOUND: a delete is answered 200
\* exactly when its task is stored at the moment it is executed, it removes
\* the task, and a task once deleted is never reported deleted again.
C28_ConcurrentDeletes ==
    [][ \A r \in Outcomes :
          Answered(r, "delete")
          => \A k \in Named(hist, r.req.id) :
                IF k \in DOMAIN store
                THEN /\ r.status = 200
                     /\ r.data = <<store[k]>>
                     /\ k \notin DOMAIN store'
                     /\ hist[k].deletedBy = 0
                     /\ hist'[k].deletedBy = r.n
                ELSE /\ NotFound(r)
                     /\ store' = store
                     /\ hist'[k].deletedBy = hist[k].deletedBy
      ]_vars

\* of two overlapping deletes of one task the one sent first was executed
\* last and answered 404, the other having deleted the task
C28_Witness ==
    /\ Answered(resp, "delete") /\ NotFound(resp)
    /\ \E k \in Named(hist, resp.req.id) :
          /\ hist[k].deletedBy > resp.n
          /\ k \notin DOMAIN store

(* ------------------------------- C29 ----------------------------------- *)

\* every task of the table `old` other than `k` is in `new`, unchanged
OthersKept(old, new, k) ==
    \A j \in DOMAIN old \ {k} : j \in DOMAIN new /\ new[j] = old[j]

\* C29: only successful mutations change the store.  The stored tasks are
\* the same after every ListTasks, GetTask, health check and unmatched
\* request and after every request answered 4xx, and they change in no step
\* but the commit of a mutation answered 2xx; a CreateTask answered 201 adds
\* exactly one task and changes no other, a DeleteTask answered 200 removes
\* exactly the addressed task, and an UpdateTask answered 200 changes only
\* the addressed task and not the number of tasks.
C29_OnlyMutationsChangeStore ==
    [][ /\ store' # store
           => \E r \in Outcomes :
                 /\ r.req.op \in {"create", "update", "delete"}
                 /\ r.status \in {200, 201}
        /\ \A r \in Outcomes :
             /\ ( \/ r.req.op \in {"list", "get", "health", "unmatched"}
                  \/ r.status \in 400..499 )
                => store' = store
             /\ (r.req.op = "create" /\ r.status = 201)
                => /\ Cardinality(DOMAIN store' \ DOMAIN store) = 1
                   /\ DOMAIN store \subseteq DOMAIN store'
                   /\ OthersKept(store, store', r.data[1].id)
             /\ (r.req.op = "delete" /\ r.status = 200)
                => /\ Named(store, r.req.id) = {r.data[1].id}
                   /\ DOMAIN store' = DOMAIN store \ {r.data[1].id}
                   /\ OthersKept(store, store', r.data[1].id)
             /\ (r.req.op = "update" /\ r.status = 200)
                => /\ Named(store, r.req.id) = {r.data[1].id}
                   /\ DOMAIN store' = DOMAIN store
                   /\ OthersKept(store, store', r.data[1].id)
      ]_vars

\* C29 as amended: the stored tasks change in no step but the one in which
\* the store executes the statement of a CreateTask, UpdateTask or
\* DeleteTask, whatever that request is answered (it is answered 500 when
\* the reply to an executed statement is lost); they are the same after
\* every ListTasks, GetTask, health check and unmatched request and after
\* every request answered 4xx; and a 201 CreateTask, a 200 DeleteTask and a
\* 200 UpdateTask change them as stated.
C29_StoreChangesOnlyByExecutedMutation ==
    [][ /\ store' # store
           => \E p \in pending \ pending' :
                 /\ ~p.done
                 /\ p.req.op \in {"create", "update", "delete"}
                 /\ \E x \in pending' \ pending : x.rid = p.rid /\ x.done
        /\ \A r \in Outcomes :
             /\ ( \/ r.req.op \in {"list", "get", "health", "unmatched"}
                  \/ r.status \in 400..499 )
                => store' = store
             /\ (r.req.op = "create" /\ r.status = 201)
                => /\ Cardinality(DOMAIN store' \ DOMAIN store) = 1
                   /\ DOMAIN store \subseteq DOMAIN store'
                   /\ OthersKept(store, store', r.data[1].id)
             /\ (r.req.op = "delete" /\ r.status = 200)
                => /\ Named(store, r.req.id) = {r.data[1].id}
                   /\ DOMAIN store' = DOMAIN store \ {r.data[1].id}
                   /\ OthersKept(store, store', r.data[1].id)
             /\ (r.req.op = "update" /\ r.status = 200)
                => /\ Named(store, r.req.id) = {r.data[1].id}
                   /\ DOMAIN store' = DOMAIN store
                   /\ OthersKept(store, store', r.data[1].id)
      ]_vars

\* a delete whose statement was executed and whose reply was lost was
\* answered 500: its task is gone and the other stored task is as it was
C29_Witness ==
    /\ Answered(resp, "delete") /\ resp.status = 500
    /\ resp.thrown # <<>> /\ resp.thrown[1].message = "fetch failed"
    /\ Named(store, resp.req.id) = {}
    /\ \E k \in Named(hist, resp.req.id) : hist[k].deletedBy = resp.n
    /\ \E k \in DOMAIN store : store[k] = hist[k].created

(* ------------------------------- C30 ----------------------------------- *)

\* the query is a valid one: limit an integer of 1..100 or absent, offset an
\* integer from 0 on or absent, each filter a value of its set or absent
ValidListQuery(q) ==
    /\ Has(q, "limit") => ~NotIntegerIn(q["limit"], 1, 100)
    /\ Has(q, "offset") => ~NotIntegerIn(q["offset"], 0, 0 - 1)
    /\ Has(q, "status") =>
          q["status"] \in {<<"t", "o", "d", "o">>, <<"d", "o", "n", "e">>,
               <<"i", "n", "_", "p", "r", "o", "g", "r", "e", "s", "s">>}
    /\ Has(q, "priority") =>
          q["priority"] \in {<<"l", "o", "w">>, <<"h", "i", "g", "h">>,
                             <<"m", "e", "d", "i", "u", "m">>}

\* the stored tasks that match the filters of the query
Matching(q) ==
    {r \in Rows : Satisfies(r, q, "status") /\ Satisfies(r, q, "priority")}

\* min(l, max(0, m - o))
PageSize(l, m, o) ==
    IF m - o <= 0 THEN 0 ELSE IF m - o < l THEN m - o ELSE l

\* C30: ListTasks returns the whole page.  A valid ListTasks is answered
\* 200; when M stored tasks match the filters, a 200 answer with limit L and
\* offset O holds exactly min(L, max(0, M - O)) items, all different and all
\* matching, and meta.count is that number; an offset at or beyond M gives
\* 200 with an empty list, never an error.
C30_WholePage ==
    Answered(resp, "list") =>
        LET q == resp.req.query
            size == IF WideOffset(q) THEN 0
                    ELSE PageSize(Validated(q, "limit", 20),
                                  Cardinality(Matching(q)),
                                  Validated(q, "offset", 0))
        IN  /\ ValidListQuery(q) => resp.status = 200
            /\ resp.status = 200 =>
                  /\ Len(resp.data) = size
                  /\ resp.meta[1].count = size
                  /\ Cardinality(Listed(resp)) = size
                  /\ Listed(resp) \subseteq Matching(q)

=============================================================================
